---- MODULE Spec2Model ----
(***************************************************************************)
(* Jet-buddy signal pipeline: the Signal Aggregator (aggregator.py), the   *)
(* Target Engine (tp_engine.py), the Risk Sizer (risk_engine.py), the      *)
(* series engines (trend_engine.py, smc_engine.py, time_engine.py), the    *)
(* Sentiment Classifier (sentiment_engine.py), the external collaborators  *)
(* (data_fetcher.py) and the pipeline itself (run_full_analysis, main.py). *)
(*                                                                         *)
(* The state of the model is the call made to one of these functions:      *)
(* which operation runs (op), the arguments it is given together with the  *)
(* answers of the external collaborators it will meet (args), what it      *)
(* returned (ret) and whether it has returned (pc).  A call to a           *)
(* collaborator that never answers never returns.                          *)
(*                                                                         *)
(* Numbers.  Python floats are modelled by exact rationals kept as integer *)
(* numerators over a denominator named next to each definition:            *)
(*   - a raw confidence c stands for c / ConfDen;                          *)
(*   - a normalized confidence n stands for n / (100 * ConfDen);           *)
(*   - a bucket score <<s, e>> stands for the float nearest s / ScoreDen,  *)
(*     e units in the last place away from it;                             *)
(*   - bias_confidence is returned in hundredths (round(x, 2));            *)
(*   - a price p stands for PriceRef + p * 0.00001, where PriceRef is any  *)
(*     multiple of 0.0001 (the Target Engine is translation invariant and  *)
(*     round(x, 4) commutes with such a shift), so a value rounded to 4    *)
(*     decimals is a multiple of 10.                                       *)
(* round(x, n) is modelled by RoundNearest: the nearest step, and at an    *)
(* exact decimal tie either neighbour, because the binary float that       *)
(* stands for the decimal lies on one side or the other of the tie.        *)
(***************************************************************************)
EXTENDS Integers, Sequences, FiniteSets, TLC

VARIABLES op, args, ret, pc, api_calls, threads, sweep, cache, tasks, reply

vars == <<op, args, ret, pc, api_calls, threads, sweep, cache, tasks, reply>>

\* the call under way: the operation, its inputs, its result and its position
call == <<op, args, ret, pc>>

\* the state of the running service: the api_calls table, the threads inside
\* get_ohlcv_data, the scheduled job, the analysis_cache table, the background
\* tasks waiting to run and the last answer of GET /analyze
server == <<api_calls, threads, sweep, cache, tasks, reply>>

(***************************************************************************)
(* Bounds of the model.                                                    *)
(***************************************************************************)
\* raw confidences are multiples of 1 / ConfDen
ConfDen == 8
\* prices are TickStep * i hundred-thousandths, i in 0 .. MaxTick
TickStep == 7
MaxTick == 3
\* momentum is k / 2 for k in 0 .. MaxMom
MaxMom == 2
\* risk_ratio is k / 2 for k in 0 .. MaxRR
MaxRR == 3
\* the rounding error of a float sum, in units in the last place, is within
\* -MaxUlp .. MaxUlp
MaxUlp == 1

(***************************************************************************)
(* Arithmetic helpers (Python built-ins).                                  *)
(***************************************************************************)
Abs(x) == IF x < 0 THEN -x ELSE x

Max2(a, b) == IF a >= b THEN a ELSE b

Min2(a, b) == IF a <= b THEN a ELSE b

\* round(): the integers nearest to n / d (d > 0); both neighbours at a tie
RoundNearest(n, d) ==
  LET f == n \div d
      r == n % d
  IN  IF 2 * r < d THEN {f}
      ELSE IF 2 * r > d THEN {f + 1}
      ELSE {f, f + 1}

Directions == {"bullish", "bearish", "neutral"}

(***************************************************************************)
(* Signal Aggregator: aggregate_signals.                                   *)
(***************************************************************************)
\* raw confidences handed to the aggregator, numerators over ConfDen:
\* the 0-1 scale, one value just above 1, and the 0-100 scale
RawConfs == (0 .. ConfDen + 1) \cup {100 * k : k \in 1 .. ConfDen}

\* weights, in tenths
weights == [trend |-> 5, sentiment |-> 2, structure |-> 3]

\* denominator of a bucket score: tenths x normalized confidence
ScoreDen == 10 * 100 * ConfDen

\* mapping.get(direction, 0)
mapping(d) ==
  IF d = "bullish" THEN 1 ELSE IF d = "bearish" THEN -1 ELSE 0

\* mutant: the scale test accepts 1.0 as a percentage
NormalizeConfidence_ge(c) == IF c >= ConfDen THEN c ELSE 100 * c

\* mutant: the percentage is never divided
NormalizeConfidence_nodiv(c) == 100 * c

\* "if confidence > 1: confidence = confidence / 100"; result over 100 * ConfDen
NormalizeConfidence(c) == IF c > ConfDen THEN c ELSE 100 * c

\* the exact value of the two buckets after the three components were
\* accumulated, over ScoreDen
bucket_sums(trend, sentiment, structure) ==
  LET trend_score == mapping(trend.trend_direction)
      trend_confidence == NormalizeConfidence(trend.confidence)
      sentiment_score == mapping(sentiment.sentiment)
      sentiment_confidence == NormalizeConfidence(sentiment.confidence)
      structure_score == mapping(structure.structure_bias)
      structure_confidence == IF structure_score # 0 THEN 100 * ConfDen ELSE 0
      bull(score, conf, w) == IF score > 0 THEN conf * w ELSE 0
      bear(score, conf, w) == IF score > 0 THEN 0 ELSE IF score < 0 THEN conf * w ELSE 0
  IN  [bullish |-> bull(trend_score, trend_confidence, weights.trend)
                   + bull(sentiment_score, sentiment_confidence, weights.sentiment)
                   + bull(structure_score, structure_confidence, weights.structure),
       bearish |-> bear(trend_score, trend_confidence, weights.trend)
                   + bear(sentiment_score, sentiment_confidence, weights.sentiment)
                   + bear(structure_score, structure_confidence, weights.structure)]

\* whether the float operations that build the bucket of direction score are
\* all exact: an empty bucket, the structure term alone (1.0 * 0.3), or the
\* trend term alone on the 0-1 scale (a product with 0.5).  A division by 100,
\* a product with 0.2 and a sum of two terms are rounded.
bucket_is_exact(score, trend, sentiment, structure) ==
  LET has_trend == mapping(trend.trend_direction) = score /\ trend.confidence # 0
      has_sentiment == mapping(sentiment.sentiment) = score /\ sentiment.confidence # 0
      has_structure == mapping(structure.structure_bias) = score
  IN  /\ ~has_sentiment
      /\ ~(has_trend /\ has_structure)
      /\ has_trend => trend.confidence <= ConfDen

\* scores as floats: a bucket is <<n, e>>, the exact value n / ScoreDen and the
\* rounding error e of the float that stands for it, in units in the last place.
\* The error is recorded where it decides a comparison: when the exact values
\* of the two buckets are equal.
component_scores(trend, sentiment, structure) ==
  LET sums == bucket_sums(trend, sentiment, structure)
      errors(score) ==
        IF sums.bullish # sums.bearish \/ bucket_is_exact(score, trend, sentiment, structure)
          THEN {0}
          ELSE -MaxUlp .. MaxUlp
  IN  {[bullish |-> <<sums.bullish, eb>>, bearish |-> <<sums.bearish, er>>] :
         eb \in errors(1), er \in errors(-1)}

\* x > y on two floats <<n, e>>
FloatGreater(x, y) == x[1] > y[1] \/ (x[1] = y[1] /\ x[2] > y[2])

\* mutant: a tie of the buckets is decided bullish
final_decision_tie(scores) ==
  IF ~FloatGreater(scores.bearish, scores.bullish)
    THEN [final_bias |-> "bullish", confidence |-> scores.bullish[1]]
    ELSE [final_bias |-> "bearish", confidence |-> scores.bearish[1]]

\* "Determine final bias and confidence"; confidence over ScoreDen
final_decision(scores) ==
  IF FloatGreater(scores.bullish, scores.bearish)
    THEN [final_bias |-> "bullish", confidence |-> scores.bullish[1]]
    ELSE IF FloatGreater(scores.bearish, scores.bullish)
      THEN [final_bias |-> "bearish", confidence |-> scores.bearish[1]]
      ELSE [final_bias |-> "neutral",
            confidence |-> ScoreDen - Max2(scores.bullish[1], scores.bearish[1])]

\* the records aggregate_signals can return: bias_confidence in hundredths
aggregate_signals(trend, sentiment, structure) ==
  UNION {
    LET d == final_decision(scores)
    IN  {[bias_confidence |-> bc, final_bias |-> d.final_bias, component_scores |-> scores] :
           bc \in RoundNearest(100 * Min2(d.confidence, ScoreDen), ScoreDen)}
    : scores \in component_scores(trend, sentiment, structure)}

(***************************************************************************)
(* Risk Sizer: get_position_size.                                          *)
(***************************************************************************)
\* volatility labels the Time/Volatility Estimator produces
Volatilities == {"low", "moderate", "high", "unknown"}

\* requested tiers: the three known names and one unknown name
RiskTiers == {"conservative", "medium", "aggressive", "yolo"}

\* mutant: the high-confidence rule is tried before the volatility rule
effective_tier_swapped(confidence, volatility, risk_tier) ==
  IF confidence < 40 THEN "conservative"
  ELSE IF confidence > 75 THEN "aggressive"
  ELSE IF volatility = "high" THEN "conservative"
  ELSE risk_tier

\* the if/elif chain; confidence in hundredths
effective_tier(confidence, volatility, risk_tier) ==
  IF confidence < 40 THEN "conservative"
  ELSE IF volatility = "high" THEN "conservative"
  ELSE IF confidence > 75 /\ volatility # "high" THEN "aggressive"
  ELSE risk_tier

\* lot_sizes.get(tier, 0.10), in hundredths of a lot
lot_sizes(tier) ==
  IF tier = "conservative" THEN 1
  ELSE IF tier = "medium" THEN 10
  ELSE IF tier = "aggressive" THEN 100
  ELSE 10

get_position_size(confidence, volatility, risk_tier) ==
  LET tier == effective_tier(confidence, volatility, risk_tier)
  IN  [risk_profile |-> tier, suggested_lot_size |-> lot_sizes(tier)]

(***************************************************************************)
(* Target Engine: generate_tp_prediction.                                  *)
(*   trend_data   = [bias, confidence, momentum]                           *)
(*   smc_data     = [order_block, liquidity_zone]                          *)
(*   risk_profile = [entry_price, risk_ratio]                              *)
(* An order block is None (kind "none"), a bare price (kind "price"), a    *)
(* dict with a zone string, kept as the parts of zone.split('--') (kind    *)
(* "zone"), or a dict without a zone (kind "dict").  A liquidity zone is   *)
(* <<p>>, or <<>> for None (what the Structure Analyzer returns for a      *)
(* series that is too short).  An exact value is a pair <<n, d>> for n/d.  *)
(***************************************************************************)
Prices == {TickStep * i : i \in 0 .. MaxTick}

\* momentum and risk_ratio, in halves
Momenta == 0 .. MaxMom

RiskRatios == 0 .. MaxRR

\* raw confidences handed to the Target Engine, numerators over ConfDen
TpConfs == {0, 1, ConfDen \div 2, ConfDen, ConfDen + 1, 100 * (ConfDen \div 2)}

OrderBlocks ==
  {[kind |-> "none", parts |-> <<>>], [kind |-> "dict", parts |-> <<>>],
   [kind |-> "zone", parts |-> <<0>>]}
  \cup {[kind |-> "price", parts |-> <<p>>] : p \in Prices}
  \cup {[kind |-> "zone", parts |-> z] : z \in {y \in Prices \X Prices : y[1] <= y[2]}}

LiquidityZones == {<<>>} \cup {<<p>> : p \in Prices}

\* denominator of price_multiplier: halves x normalized confidence
MultDen == 2 * 100 * ConfDen

\* (momentum * confidence) if (momentum * confidence) > 0.01 else 0.01; over MultDen
price_multiplier(momentum, confidence) ==
  LET mc == momentum * NormalizeConfidence(confidence)
  IN  IF 100 * mc > MultDen THEN mc ELSE MultDen \div 100

\* mutant: the lower bound of the zone is taken for every bias
order_block_price_low(order_block, entry_price, bias) ==
  IF order_block.kind = "zone"
    THEN IF Len(order_block.parts) > 1 THEN order_block.parts[1] ELSE entry_price
    ELSE IF order_block.kind = "price" THEN order_block.parts[1] ELSE entry_price

\* the price an order block contributes: zone_parts[-1] for bullish,
\* zone_parts[0] for bearish, the bare price, or entry_price when absent
order_block_price(order_block, entry_price, bias) ==
  IF order_block.kind = "zone"
    THEN IF Len(order_block.parts) > 1
           THEN IF bias = "bullish"
                  THEN order_block.parts[Len(order_block.parts)]
                  ELSE order_block.parts[1]
           ELSE entry_price
    ELSE IF order_block.kind = "price" THEN order_block.parts[1] ELSE entry_price

\* mutant: the anchor is the lowest of the three for every bias
base_tp_min(bias, ob_price, liquidity_zone, entry_price) ==
  Min2(ob_price, Min2(liquidity_zone, entry_price))

\* max(...) for bullish, min(...) for bearish
base_tp(bias, ob_price, liquidity_zone, entry_price) ==
  IF bias = "bullish"
    THEN Max2(ob_price, Max2(liquidity_zone, entry_price))
    ELSE Min2(ob_price, Min2(liquidity_zone, entry_price))

\* mutant: every bias that is not bullish is handled as bearish
tp_sl_levels_noneutral(bias, base, entry_price, multiplier, risk_ratio) ==
  LET tp_distance == Abs(base - entry_price) * multiplier
  IN  IF bias = "bullish"
        THEN [tp |-> <<base * MultDen + tp_distance, MultDen>>,
              sl |-> <<entry_price * MultDen * risk_ratio - 2 * tp_distance, MultDen * risk_ratio>>]
        ELSE [tp |-> <<base * MultDen - tp_distance, MultDen>>,
              sl |-> <<entry_price * MultDen * risk_ratio + 2 * tp_distance, MultDen * risk_ratio>>]

\* the stop is tp_distance * risk_ratio away instead of tp_distance / risk_ratio
tp_sl_levels_times(bias, base, entry_price, multiplier, risk_ratio) ==
  LET tp_distance == Abs(base - entry_price) * multiplier
  IN  IF bias = "bullish"
        THEN [tp |-> <<base * MultDen + tp_distance, MultDen>>,
              sl |-> <<2 * entry_price * MultDen - tp_distance * risk_ratio, 2 * MultDen>>]
        ELSE IF bias = "bearish"
          THEN [tp |-> <<base * MultDen - tp_distance, MultDen>>,
                sl |-> <<2 * entry_price * MultDen + tp_distance * risk_ratio, 2 * MultDen>>]
          ELSE [tp |-> <<entry_price, 1>>, sl |-> <<entry_price, 1>>]

\* tp_level and sl_level before rounding, as exact values
tp_sl_levels(bias, base, entry_price, multiplier, risk_ratio) ==
  LET tp_distance == Abs(base - entry_price) * multiplier
  IN  IF bias = "bullish"
        THEN [tp |-> <<base * MultDen + tp_distance, MultDen>>,
              sl |-> <<entry_price * MultDen * risk_ratio - 2 * tp_distance, MultDen * risk_ratio>>]
        ELSE IF bias = "bearish"
          THEN [tp |-> <<base * MultDen - tp_distance, MultDen>>,
                sl |-> <<entry_price * MultDen * risk_ratio + 2 * tp_distance, MultDen * risk_ratio>>]
          ELSE [tp |-> <<entry_price, 1>>, sl |-> <<entry_price, 1>>]

\* round(x, 4) of the exact value x, in hundred-thousandths
Round4(x) == {10 * q : q \in RoundNearest(x[1], 10 * x[2])}

\* two exact values are the same number (the same float rounds one way)
SameValue(x, y) == x[1] * y[2] = y[1] * x[2]

\* the inputs on which the try block raises: float(dict), max() or min() with
\* None, division by a zero risk_ratio; all in the bullish and bearish branches
tp_raises(trend_data, smc_data, risk_profile) ==
  /\ trend_data.bias # "neutral"
  /\ \/ smc_data.order_block.kind = "dict"
     \/ smc_data.liquidity_zone = <<>>
     \/ risk_profile.risk_ratio = 0

\* the record of the except branch
tp_error_result(risk_profile) ==
  [bias |-> "neutral",
   tp_level |-> risk_profile.entry_price,
   sl_level |-> risk_profile.entry_price,
   tp_zone |-> <<risk_profile.entry_price>>,
   levels |-> <<risk_profile.entry_price>>,
   confidence |-> 0,
   error |-> TRUE]

\* the records generate_tp_prediction can return
generate_tp_prediction(trend_data, smc_data, risk_profile) ==
  IF tp_raises(trend_data, smc_data, risk_profile)
    THEN {tp_error_result(risk_profile)}
    ELSE
      LET bias == trend_data.bias
          entry_price == risk_profile.entry_price
          confidence == NormalizeConfidence(trend_data.confidence)
          multiplier == price_multiplier(trend_data.momentum, trend_data.confidence)
          lz == IF bias = "neutral" THEN entry_price ELSE smc_data.liquidity_zone[1]
          base == base_tp(bias, order_block_price(smc_data.order_block, entry_price, bias),
                          lz, entry_price)
          rr == IF bias = "neutral" THEN 1 ELSE risk_profile.risk_ratio
          exact == tp_sl_levels(bias, base, entry_price, multiplier, rr)
          \* entry + (tp - entry) * 0.5, and its bearish mirror, are the same value
          mid == <<entry_price * exact.tp[2] + exact.tp[1], 2 * exact.tp[2]>>
          result(tp, sl, tp_levels) ==
            [bias |-> bias, tp_level |-> tp, sl_level |-> sl,
             tp_zone |-> IF Len(tp_levels) >= 2
                           THEN <<tp_levels[1], tp_levels[Len(tp_levels)]>>
                           ELSE <<tp_levels[1]>>,
             levels |-> tp_levels, confidence |-> confidence, error |-> FALSE]
      IN  {result(tp, sl, IF bias = "neutral" THEN <<entry_price>> ELSE <<half, tp>>) :
             <<half, tp, sl>> \in
               {t \in Round4(mid) \X Round4(exact.tp) \X Round4(exact.sl) :
                  /\ SameValue(mid, exact.tp) => t[1] = t[2]
                  /\ SameValue(exact.tp, exact.sl) => t[2] = t[3]
                  /\ SameValue(mid, exact.sl) => t[1] = t[3]}}

(***************************************************************************)
(* Candle series (the OHLCV DataFrame handed to the series engines).       *)
(* A candle is [open, high, low, close] in price units; a DataFrame        *)
(* argument is <<>> for None and <<s>> for the series s, which may be      *)
(* empty.  The closes swing up and down between base and base + step *     *)
(* ZigLen, every candle opens at the previous close, its wicks reach wick  *)
(* units beyond its body, and the last candle may break out of the range.  *)
(* A shaped series follows runs of <<candles, move per candle>> instead:   *)
(* a trend with pull-backs, where a swing high lies below a swing low.     *)
(* The Trend Classifier and the Time/Volatility Estimator use ratios of    *)
(* prices only; the Structure Analyzer rounds its levels to 4 decimals,    *)
(* and for it a price unit is 0.00001: a level rounded to 4 decimals is a  *)
(* multiple of 10.                                                         *)
(***************************************************************************)
\* the longest series has MaxLen candles
MaxLen == 42
\* a swing of the closes takes ZigLen candles
ZigLen == 6
\* wicks are 0 .. MaxWick units long
MaxWick == 2
\* the closes move 0 .. MaxStep units per candle
MaxStep == 1

RECURSIVE SumTo(_, _)
\* sum(f[1 .. n])
SumTo(f, n) == IF n = 0 THEN 0 ELSE f[n] + SumTo(f, n - 1)

Zig(i) ==
  LET t == (i - 1) % (2 * ZigLen)
  IN  IF t <= ZigLen THEN t ELSE 2 * ZigLen - t

SeriesBases == {90, 400, 1000}

\* the last candle closes where the swing puts it, or breaks out of the range
Jumps == {-(ZigLen + MaxWick + 1), 0, ZigLen + MaxWick + 1}

\* lengths on both sides of every minimum the engines test (10, 14, 20, 25)
SeriesLens == {0, 9, 10, 13, 14, 19, 20, 24, 25, MaxLen}

MakeSeries(n, base, wick, step, jump) ==
  [i \in 1 .. n |->
     LET c == base + step * Zig(i) + (IF i = n THEN jump ELSE 0)
         o == IF i = 1 THEN c ELSE base + step * Zig(i - 1)
     IN  [open |-> o, high |-> Max2(o, c) + wick,
          low |-> Min2(o, c) - wick, close |-> c]]

RECURSIVE ShapeCloses(_, _)
\* the closes of a shaped series: base, then run after run
ShapeCloses(shape, base) ==
  IF shape = <<>> THEN <<base>>
  ELSE LET before == ShapeCloses(SubSeq(shape, 1, Len(shape) - 1), base)
           run == shape[Len(shape)]
       IN  before \o [k \in 1 .. run[1] |-> before[Len(before)] + k * run[2]]

\* a steady rise, a down trend that bounces and an up trend that pulls back
Shapes ==
  {<<<<30, 2>>>>,
   <<<<8, -5>>, <<5, 1>>, <<6, -8>>, <<4, 8>>, <<3, -8>>, <<6, 8>>, <<5, -3>>>>,
   <<<<5, 5>>, <<5, -5>>, <<10, 8>>, <<8, -3>>, <<6, 1>>, <<1, -8>>, <<5, 5>>,
     <<1, -29>>>>}

ShapedSeries(shape, base, wick) ==
  LET c == ShapeCloses(shape, base)
  IN  [i \in 1 .. Len(c) |->
         LET o == IF i = 1 THEN c[1] ELSE c[i - 1]
         IN  [open |-> o, high |-> Max2(o, c[i]) + wick,
              low |-> Min2(o, c[i]) - wick, close |-> c[i]]]

SeriesSet ==
  {MakeSeries(n, b, w, s, j) :
     n \in SeriesLens, b \in SeriesBases, w \in 0 .. MaxWick, s \in 0 .. MaxStep,
     j \in Jumps}
  \cup {ShapedSeries(h, b, w) : h \in Shapes, b \in SeriesBases, w \in 0 .. MaxWick}

DataFrames == {<<>>} \cup {<<s>> : s \in SeriesSet}

(***************************************************************************)
(* Time/Volatility Estimator: estimate_time_and_volatility.                *)
(* entry_zone is [kind, parts]: None ("none"), the text 'N/A' ("na"), a    *)
(* text of one or two prices joined by '--' ("text", parts the prices) or  *)
(* a text float() cannot parse ("bad").  An ETA text is [form, value]:     *)
(* "in ~N minutes" is ["in_minutes", N], "in ~H.h hours" is ["in_hours",   *)
(* tenths of an hour], "within H.h hours" is ["within_hours", tenths].     *)
(* The module imports numpy only: pd_bound tells whether the name pd       *)
(* resolves when the true-range table is built.                            *)
(***************************************************************************)
MinTimeLen == 10

CandleMinutes == 15

HourMinutes == 60

AtrWindow == 14

ZonePrices == {88, 90, 94, 100, 110}

TimeEntryZones ==
  {[kind |-> "none", parts |-> <<>>], [kind |-> "na", parts |-> <<>>],
   [kind |-> "bad", parts |-> <<>>]}
  \cup {[kind |-> "text", parts |-> <<p>>] : p \in ZonePrices}
  \cup {[kind |-> "text", parts |-> z] : z \in ZonePrices \X ZonePrices}

NotAvailable == [form |-> "N/A", value |-> 0]

\* entry_zone or 'N/A'
best_entry_zone(entry_zone) ==
  IF entry_zone.kind = "none" THEN [kind |-> "na", parts |-> <<>>] ELSE entry_zone

\* (high - low).mean() as <<sum, count>>
avg_candle_size(df) ==
  <<SumTo([i \in 1 .. Len(df) |-> df[i].high - df[i].low], Len(df)), Len(df)>>

\* minutes_to_entry as <<numerator, denominator>>: the distance from the last
\* close to np.mean(zone_prices), over avg_candle_size, times 15
minutes_to_entry(df, entry_zone) ==
  LET k == Len(entry_zone.parts)
      avg == avg_candle_size(df)
      distance_k == Abs(k * df[Len(df)].close - SumTo(entry_zone.parts, k))
  IN  <<CandleMinutes * distance_k * avg[2], k * avg[1]>>

\* minutes_to_tp: twice the distance from the last close to the first price of
\* the zone, over avg_candle_size, times 15
minutes_to_tp(df, entry_zone) ==
  LET avg == avg_candle_size(df)
      distance_to_tp == 2 * Abs(entry_zone.parts[1] - df[Len(df)].close)
  IN  <<CandleMinutes * distance_to_tp * avg[2], avg[1]>>

\* f"{minutes / 60:.1f}": tenths of an hour
hours_text(minutes) == RoundNearest(10 * minutes[1], HourMinutes * minutes[2])

entry_time_str(minutes) ==
  IF minutes[1] < HourMinutes * minutes[2]
  THEN {[form |-> "in_minutes", value |-> minutes[1] \div minutes[2]]}
  ELSE {[form |-> "in_hours", value |-> h] : h \in hours_text(minutes)}

tp_eta_str(minutes) ==
  {[form |-> "within_hours", value |-> h] : h \in hours_text(minutes)}

\* max(h-l, |h-pc|, |l-pc|) of candle i; the first candle has no previous close
true_range(df, i) ==
  IF i = 1 THEN df[1].high - df[1].low
  ELSE Max2(df[i].high - df[i].low,
            Max2(Abs(df[i].high - df[i - 1].close), Abs(df[i].low - df[i - 1].close)))

\* rolling(14).mean().iloc[-1] as <<sum, 14>>; <<>> is NaN (fewer than 14 rows)
atr(df) ==
  IF Len(df) < AtrWindow THEN <<>>
  ELSE <<SumTo([j \in 1 .. AtrWindow |-> true_range(df, Len(df) - AtrWindow + j)],
               AtrWindow),
         AtrWindow>>

\* relative_atr = atr / close against 0.005 and 0.002; NaN compares false
volatility_tier(df) ==
  LET a == atr(df)
      close == df[Len(df)].close
  IN  IF a = <<>> THEN "low"
      ELSE IF 1000 * a[1] > 5 * a[2] * close THEN "high"
      ELSE IF 1000 * a[1] > 2 * a[2] * close THEN "moderate"
      ELSE "low"

time_error_result(entry_zone) ==
  [estimated_entry_time |-> [form |-> "Error", value |-> 0],
   tp_eta |-> [form |-> "Error", value |-> 0],
   best_entry_zone |-> best_entry_zone(entry_zone),
   volatility |-> "unknown", error |-> TRUE]

estimate_time_and_volatility(ohlcv_df, entry_zone, pd_bound) ==
  IF ohlcv_df = <<>> \/ Len(ohlcv_df[1]) < MinTimeLen
  THEN {[estimated_entry_time |-> NotAvailable, tp_eta |-> NotAvailable,
         best_entry_zone |-> best_entry_zone(entry_zone),
         volatility |-> "unknown", error |-> FALSE]}
  ELSE LET df == ohlcv_df[1]
       IN  IF avg_candle_size(df)[1] = 0
           THEN {[estimated_entry_time |-> NotAvailable, tp_eta |-> NotAvailable,
                  best_entry_zone |-> best_entry_zone(entry_zone),
                  volatility |-> "low", error |-> FALSE]}
           ELSE IF entry_zone.kind = "bad" \/ ~pd_bound
           THEN {time_error_result(entry_zone)}
           ELSE IF entry_zone.kind = "text"
           THEN {[estimated_entry_time |-> e, tp_eta |-> t,
                  best_entry_zone |-> entry_zone,
                  volatility |-> volatility_tier(df), error |-> FALSE] :
                   e \in entry_time_str(minutes_to_entry(df, entry_zone)),
                   t \in tp_eta_str(minutes_to_tp(df, entry_zone))}
           ELSE {[estimated_entry_time |-> NotAvailable, tp_eta |-> NotAvailable,
                  best_entry_zone |-> best_entry_zone(entry_zone),
                  volatility |-> volatility_tier(df), error |-> FALSE]}

(***************************************************************************)
(* Trend Classifier: analyze_trend.                                        *)
(* The wavelet transform, the Kalman filter and the line fit are numerical *)
(* library calls; what they hand to the classification is the slope of the *)
(* last smoothed points, which the call receives here as polyfit_slope:    *)
(* <<k>> for the slope k / SlopeDen, <<>> when the library call raises.    *)
(* confidence is returned in hundredths (round(x, 2)).                     *)
(***************************************************************************)
MinTrendLen == 20

\* slopes are multiples of 1 / SlopeDen in -MaxSlope .. MaxSlope
SlopeDen == 20
MaxSlope == 3

Slopes == {<<>>} \cup {<<k>> : k \in -MaxSlope .. MaxSlope}

closes(df) == [i \in 1 .. Len(df) |-> df[i].close]

RECURSIVE MaxTo(_, _)
MaxTo(f, n) == IF n = 1 THEN f[1] ELSE Max2(f[n], MaxTo(f, n - 1))

RECURSIVE MinTo(_, _)
MinTo(f, n) == IF n = 1 THEN f[1] ELSE Min2(f[n], MinTo(f, n - 1))

\* np.ptp(close_prices)
price_range(df) == MaxTo(closes(df), Len(df)) - MinTo(closes(df), Len(df))

\* sum of |np.diff(close_prices)|; avg_change is this over Len(df) - 1
abs_changes(df) ==
  SumTo([i \in 1 .. Len(df) - 1 |-> Abs(df[i + 1].close - df[i].close)], Len(df) - 1)

\* min(abs(slope / (price_range / len)) * 10, 1.0) as <<numerator, denominator>>
slope_confidence(df, k) ==
  LET num == 10 * Abs(k) * Len(df)
      den == SlopeDen * price_range(df)
  IN  IF num >= den THEN <<1, 1>> ELSE <<num, den>>

\* the sign of the slope, without the threshold
slope_side_sign(df, k) == IF k > 0 THEN 1 ELSE IF k < 0 THEN -1 ELSE 0

\* slope against +/- threshold, threshold = 0.05 * avg_change:
\* 1 above, -1 below, 0 within
slope_side(df, k) ==
  LET lhs == 20 * k * (Len(df) - 1)
      rhs == SlopeDen * abs_changes(df)
  IN  IF lhs > rhs THEN 1 ELSE IF lhs < -rhs THEN -1 ELSE 0

trend_unavailable ==
  [trend_direction |-> "neutral", confidence |-> 0, error |-> TRUE]

analyze_trend(ohlcv_df, polyfit_slope) ==
  IF ohlcv_df = <<>> \/ Len(ohlcv_df[1]) < MinTrendLen
  THEN {trend_unavailable}
  ELSE LET df == ohlcv_df[1]
       IN  IF polyfit_slope = <<>> THEN {trend_unavailable}
           ELSE IF price_range(df) = 0 THEN {trend_unavailable}
           ELSE LET k == polyfit_slope[1]
                    c == slope_confidence(df, k)
                    side == slope_side(df, k)
                IN  IF side = 1
                    THEN {[trend_direction |-> "bullish", confidence |-> r,
                           error |-> FALSE] : r \in RoundNearest(100 * c[1], c[2])}
                    ELSE IF side = -1
                    THEN {[trend_direction |-> "bearish", confidence |-> r,
                           error |-> FALSE] : r \in RoundNearest(100 * c[1], c[2])}
                    ELSE {[trend_direction |-> "neutral", confidence |-> r,
                           error |-> FALSE] :
                            r \in RoundNearest(100 * (c[2] - c[1]), c[2])}

(***************************************************************************)
(* Structure Analyzer: find_swings and analyze_smc_structure.              *)
(* Candles are numbered from 1.  key_level and liquidity_zone are <<>> for *)
(* None and <<k>> for the price k, rounded to 4 decimals.  An order block  *)
(* is [type, zone, level]: zone the two prices of the text                 *)
(* f"{low:.4f} -- {high:.4f}", level the midpoint in halves of a price     *)
(* unit.  Rounding and formatting go to the nearest multiple of 10, at a   *)
(* tie to either, so a call has a set of possible results.  The frames of  *)
(* the model are well formed, so the handlers of unexpected exceptions     *)
(* never run; a result without the swing counts carries them as 0.         *)
(***************************************************************************)
MinSmcLen == 25

SwingWindow == 5

\* find_swings(data, n=10)
DefaultWindow == 10

LookbackCandles == 10

RecentCandles == 20

\* the window on each side: n, or max(1, len // 3) for a short frame
swing_window(df, n) == IF Len(df) < 2 * n + 1 THEN Max2(1, Len(df) \div 3) ELSE n

\* argmax of the centred window is its middle: the first maximum is candle i
is_swing_high(df, i, n) ==
  /\ i - n >= 1
  /\ i + n <= Len(df)
  /\ \A j \in (i - n) .. (i - 1) : df[j].high < df[i].high
  /\ \A j \in (i + 1) .. (i + n) : df[j].high <= df[i].high

\* argmin of the centred window is its middle: the first minimum is candle i
is_swing_low(df, i, n) ==
  /\ i - n >= 1
  /\ i + n <= Len(df)
  /\ \A j \in (i - n) .. (i - 1) : df[j].low > df[i].low
  /\ \A j \in (i + 1) .. (i + n) : df[j].low >= df[i].low

find_swings(df, n) ==
  LET w == swing_window(df, n)
  IN  [swing_high |-> {i \in 1 .. Len(df) : is_swing_high(df, i, w)},
       swing_low |-> {i \in 1 .. Len(df) : is_swing_low(df, i, w)}]

\* rows.iloc[-2]: the second to last of a set of candle numbers
SecondLast(rows) == CHOOSE i \in rows : Cardinality({j \in rows : j > i}) = 1

\* rows.iloc[-1]
Last(rows) == CHOOSE i \in rows : \A j \in rows : j <= i

\* the bullish and the bearish check only: the later check wins
bos_detection_norecency(df, swing_highs, swing_lows) ==
  LET current_close == df[Len(df)].close
      two_highs == Cardinality(swing_highs) >= 2
      two_lows == Cardinality(swing_lows) >= 2
      last_swing_high == df[SecondLast(swing_highs)].high
      last_swing_low == df[SecondLast(swing_lows)].low
  IN  IF two_lows /\ current_close < last_swing_low
      THEN [bos |-> "bearish", key_level |-> last_swing_low]
      ELSE IF two_highs /\ current_close > last_swing_high
      THEN [bos |-> "bullish", key_level |-> last_swing_high]
      ELSE [bos |-> "none", key_level |-> current_close]

\* the three BOS checks in turn; the result is [bos, key_level]
bos_detection(df, swing_highs, swing_lows) ==
  LET current_close == df[Len(df)].close
      two_highs == Cardinality(swing_highs) >= 2
      two_lows == Cardinality(swing_lows) >= 2
      last_swing_high == df[SecondLast(swing_highs)].high
      last_swing_low == df[SecondLast(swing_lows)].low
      first == IF two_highs /\ current_close > last_swing_high
               THEN [bos |-> "bullish", key_level |-> last_swing_high]
               ELSE [bos |-> "none", key_level |-> current_close]
      second == IF two_lows /\ current_close < last_swing_low
                THEN [bos |-> "bearish", key_level |-> last_swing_low]
                ELSE first
  IN  IF two_highs /\ two_lows
      THEN IF /\ SecondLast(swing_highs) > SecondLast(swing_lows)
              /\ current_close > last_swing_high
           THEN [bos |-> "bullish", key_level |-> last_swing_high]
           ELSE IF /\ SecondLast(swing_lows) > SecondLast(swing_highs)
                   /\ current_close < last_swing_low
           THEN [bos |-> "bearish", key_level |-> last_swing_low]
           ELSE second
      ELSE second

\* the candles of df.iloc[max(0, break_idx - 10) : break_idx], break_idx the
\* position of the broken swing (or len(df) - 10 when there is only one)
lookback(df, swings) ==
  LET break_idx == IF Cardinality(swings) >= 2 THEN SecondLast(swings) - 1
                   ELSE Len(df) - LookbackCandles
  IN  (Max2(0, break_idx - LookbackCandles) + 1) .. break_idx

\* the first opposite candle of the lookback instead of the last
order_block_of_first(df, type, candles) ==
  IF candles = {} THEN {<<>>}
  ELSE LET ob_candle == df[CHOOSE i \in candles : \A j \in candles : i <= j]
       IN  {<<[type |-> type, zone |-> z,
               level |-> ob_candle.low + ob_candle.high]>> :
              z \in Round4(<<ob_candle.low, 1>>) \X Round4(<<ob_candle.high, 1>>)}

order_block_of(df, type, candles) ==
  IF candles = {} THEN {<<>>}
  ELSE LET ob_candle == df[Last(candles)]
       IN  {<<[type |-> type, zone |-> z,
               level |-> ob_candle.low + ob_candle.high]>> :
              z \in Round4(<<ob_candle.low, 1>>) \X Round4(<<ob_candle.high, 1>>)}

\* the last opposite candle before the impulse that broke the structure
order_block_detection(df, bos, swing_highs, swing_lows) ==
  IF bos = "bullish" /\ Cardinality(swing_highs) >= 1
  THEN order_block_of(df, "bullish",
         {i \in lookback(df, swing_highs) : df[i].close < df[i].open})
  ELSE IF bos = "bearish" /\ Cardinality(swing_lows) >= 1
  THEN order_block_of(df, "bearish",
         {i \in lookback(df, swing_lows) : df[i].close > df[i].open})
  ELSE {<<>>}

\* the highest high for a bullish bias, the lowest low for a bearish one
liquidity_zone_detection_swapped(df, structure_bias) ==
  LET recent == (Max2(1, Len(df) - RecentCandles + 1)) .. Len(df)
      lowest == CHOOSE v \in {df[i].low : i \in recent} : \A i \in recent : v <= df[i].low
      highest == CHOOSE v \in {df[i].high : i \in recent} : \A i \in recent : v >= df[i].high
  IN  IF structure_bias = "bullish" THEN 2 * highest
      ELSE IF structure_bias = "bearish" THEN 2 * lowest
      ELSE highest + lowest

\* over df.tail(20): the lowest low, the highest high or the middle of the
\* two, in halves of a price unit
liquidity_zone_detection(df, structure_bias) ==
  LET recent == (Max2(1, Len(df) - RecentCandles + 1)) .. Len(df)
      lows == [i \in 1 .. Len(df) |-> df[i].low]
      highs == [i \in 1 .. Len(df) |-> df[i].high]
      lowest == CHOOSE v \in {lows[i] : i \in recent} : \A i \in recent : v <= lows[i]
      highest == CHOOSE v \in {highs[i] : i \in recent} : \A i \in recent : v >= highs[i]
  IN  IF structure_bias = "bullish" THEN 2 * lowest
      ELSE IF structure_bias = "bearish" THEN 2 * highest
      ELSE highest + lowest

smc_unavailable ==
  [structure_bias |-> "neutral", order_block |-> <<>>, bos_detected |-> "none",
   key_level |-> <<>>, liquidity_zone |-> <<>>,
   swing_highs_count |-> 0, swing_lows_count |-> 0, error |-> TRUE]

\* round(level, 4) if level else current_close, level = halves / 2
rounded_level(halves, current_close) ==
  IF halves = 0 THEN {current_close} ELSE Round4(<<halves, 2>>)

analyze_smc_structure(ohlcv_df) ==
  IF ohlcv_df = <<>> \/ Len(ohlcv_df[1]) < MinSmcLen
  THEN {smc_unavailable}
  ELSE LET df == ohlcv_df[1]
           current_close == df[Len(df)].close
           swings == find_swings(df, SwingWindow)
           b == bos_detection(df, swings.swing_high, swings.swing_low)
           structure_bias == IF b.bos = "none" THEN "neutral" ELSE b.bos
       IN  {[structure_bias |-> structure_bias,
             bos_detected |-> b.bos,
             order_block |-> t[1],
             key_level |-> <<t[2]>>,
             liquidity_zone |-> <<t[3]>>,
             swing_highs_count |-> Cardinality(swings.swing_high),
             swing_lows_count |-> Cardinality(swings.swing_low),
             error |-> FALSE] :
              t \in order_block_detection(df, b.bos, swings.swing_high,
                                          swings.swing_low)
                    \X rounded_level(2 * b.key_level, current_close)
                    \X rounded_level(liquidity_zone_detection(df, structure_bias),
                                     current_close)}

(***************************************************************************)
(* External collaborators (data_fetcher.py) and the Sentiment Classifier.  *)
(* A headline is [bullish_word, bearish_word]: whether its lowercased text *)
(* contains one of the bullish, one of the bearish keywords.  The answer   *)
(* of a collaborator is a record whose kind is "silent" when it never      *)
(* answers (no call passes a timeout to requests, so the call then never   *)
(* returns), "error" when the request raises (connection error, HTTP error *)
(* status, malformed body), and otherwise describes the body.  An operator *)
(* that performs a call yields the set of results the call can return:     *)
(* the empty set when it never returns.                                    *)
(***************************************************************************)
Labels == {"Bullish", "Bearish", "Neutral"}

Headlines == [bullish_word : BOOLEAN, bearish_word : BOOLEAN]

\* answers of the language model: the words its text contains
LlmResponses ==
  {[kind |-> "silent", bullish |-> FALSE, bearish |-> FALSE, neutral |-> FALSE],
   [kind |-> "error", bullish |-> FALSE, bearish |-> FALSE, neutral |-> FALSE]}
  \cup [kind : {"content"}, bullish : BOOLEAN, bearish : BOOLEAN, neutral : BOOLEAN]

\* the fallback: bullish keywords are tried first
keyword_sentiment(headline) ==
  IF headline.bullish_word THEN "Bullish"
  ELSE IF headline.bearish_word THEN "Bearish"
  ELSE "Neutral"

get_llm_sentiment(headline, response) ==
  IF response.kind = "silent" THEN {}
  ELSE IF response.kind = "error" THEN {keyword_sentiment(headline)}
  ELSE IF response.bullish THEN {"Bullish"}
  ELSE IF response.bearish THEN {"Bearish"}
  ELSE {"Neutral"}

\* [:10]
HeadlineCap == 10

\* the sampled lists of headlines have up to MaxTitles entries
MaxTitles == 5

\* the news provider: "status" is a body whose status is not success,
\* "success" a body with the titles of its articles
get_news_headlines(response) ==
  IF response.kind = "silent" THEN {}
  ELSE IF response.kind = "success"
  THEN {SubSeq(response.titles, 1, Min2(Len(response.titles), HeadlineCap))}
  ELSE {<<>>}

label_count(sentiments, l) ==
  Cardinality({i \in 1 .. Len(sentiments) : sentiments[i] = l})

first_seen(sentiments, l) ==
  CHOOSE i \in 1 .. Len(sentiments) :
    sentiments[i] = l /\ \A j \in 1 .. (i - 1) : sentiments[j] # l

\* mutant: among the labels of maximal count, the one first seen last
most_common_last(sentiments) ==
  LET seen == {sentiments[i] : i \in 1 .. Len(sentiments)}
  IN  CHOOSE l \in seen : \A m \in seen \ {l} :
        \/ label_count(sentiments, m) < label_count(sentiments, l)
        \/ /\ label_count(sentiments, m) = label_count(sentiments, l)
           /\ first_seen(sentiments, l) > first_seen(sentiments, m)

\* Counter(sentiments).most_common(1)[0][0]: the counter keeps its keys in
\* order of first occurrence and the first key of maximal count is taken
most_common(sentiments) ==
  LET seen == {sentiments[i] : i \in 1 .. Len(sentiments)}
  IN  CHOOSE l \in seen : \A m \in seen \ {l} :
        \/ label_count(sentiments, m) < label_count(sentiments, l)
        \/ /\ label_count(sentiments, m) = label_count(sentiments, l)
           /\ first_seen(sentiments, l) < first_seen(sentiments, m)

lower(label) ==
  IF label = "Bullish" THEN "bullish"
  ELSE IF label = "Bearish" THEN "bearish"
  ELSE "neutral"

\* [get_llm_sentiment(h, symbol) for h in headlines]: the list of labels; no
\* list when one of the calls never returns
classify_all(headlines, llm) ==
  IF \E i \in 1 .. Len(headlines) : get_llm_sentiment(headlines[i], llm[i]) = {}
  THEN {}
  ELSE {[i \in 1 .. Len(headlines) |->
           CHOOSE l \in get_llm_sentiment(headlines[i], llm[i]) : TRUE]}

sentiment_result(sentiments) ==
  LET dominant == most_common(sentiments)
  IN  {[sentiment |-> lower(dominant), confidence |-> c, error |-> FALSE,
        llm_calls |-> Len(sentiments)] :
         c \in RoundNearest(100 * label_count(sentiments, dominant), Len(sentiments))}

\* mutant: the list of headlines is not tested for emptiness, the counter of
\* no labels has no most common entry and the handler of exceptions answers
analyze_sentiment_unguarded(news, llm) ==
  UNION {IF headlines = <<>>
         THEN {[sentiment |-> "neutral", confidence |-> 0, error |-> TRUE,
                llm_calls |-> 0]}
         ELSE UNION {sentiment_result(s) : s \in classify_all(headlines, llm)} :
           headlines \in get_news_headlines(news)}

\* confidence in hundredths (round(x, 2)); llm_calls counts the calls of
\* get_llm_sentiment the run made
analyze_sentiment(news, llm) ==
  UNION {IF headlines = <<>>
         THEN {[sentiment |-> "neutral", confidence |-> 100, error |-> FALSE,
                llm_calls |-> 0]}
         ELSE UNION {sentiment_result(s) : s \in classify_all(headlines, llm)} :
           headlines \in get_news_headlines(news)}

(***************************************************************************)
(* Candle providers and the analysis pipeline: _get_finnhub_ohlcv,         *)
(* _get_twelvedata_ohlcv, get_ohlcv_data (data_fetcher.py) and             *)
(* run_full_analysis (main.py).  A provider is the member of the Provider  *)
(* enumeration, written as its name; its value is the lowercase string.    *)
(* A fetch yields [raised, df, source, logged]: the exception that leaves  *)
(* it ("none" if it returns), the frame (<<>> for None), the note and the  *)
(* providers it passed to log_api_call.                                    *)
(***************************************************************************)
Providers == {"Provider.FINNHUB", "Provider.TWELVEDATA"}

\* Provider.value
provider_value(provider) ==
  IF provider = "Provider.FINNHUB" THEN "finnhub" ELSE "twelvedata"

\* settings.rate_limits: requests per minute, keyed by strings
rate_limits ==
  [k \in {"finnhub", "twelvedata", "newsdata", "openrouter"} |->
     IF k = "finnhub" THEN 60
     ELSE IF k = "twelvedata" THEN 800
     ELSE IF k = "newsdata" THEN 200
     ELSE 100]

\* the frames a provider answers with: one too short for every engine and one
\* long enough for all of them
FetchedSeries == {MakeSeries(n, 90, 1, 1, 0) : n \in {9, 25}}

\* Finnhub: no answer, a failed request, a body without candles, candles
FinnhubResponses ==
  {[kind |-> k, candles |-> <<>>] : k \in {"silent", "error", "no_data"}}
  \cup {[kind |-> "ok", candles |-> s] : s \in FetchedSeries}

\* Twelve Data: a failed query, no rows, rows (the newest first)
TwelveDataResponses ==
  {[kind |-> k, rows |-> <<>>] : k \in {"error", "empty"}}
  \cup {[kind |-> "ok", rows |-> s] : s \in FetchedSeries}

\* ts.iloc[::-1]
Reverse(s) == [i \in 1 .. Len(s) |-> s[Len(s) + 1 - i]]

fetch_failed(exception, logged) ==
  [raised |-> exception, df |-> <<>>, source |-> "", logged |-> logged]

_get_finnhub_ohlcv(response) ==
  IF response.kind = "silent" THEN {}
  ELSE IF response.kind = "ok"
  THEN {[raised |-> "none", df |-> <<response.candles>>,
         source |-> "Data from Finnhub", logged |-> <<>>]}
  ELSE {fetch_failed("DataUnavailableError", <<>>)}

_get_twelvedata_ohlcv(response) ==
  IF response.kind = "ok"
  THEN {[raised |-> "none", df |-> <<Reverse(response.rows)>>,
         source |-> "Data from Twelve Data (fallback)", logged |-> <<>>]}
  ELSE {fetch_failed("DataUnavailableError", <<>>)}

\* step 3 of get_ohlcv_data: the Twelve Data fallback
fallback_fetch(env, logged) ==
  {IF r.raised = "none"
   THEN [r EXCEPT !.logged = Append(logged, "twelvedata")]
   ELSE [raised |-> "none", df |-> <<>>, source |-> "Failed all providers",
         logged |-> Append(logged, "twelvedata")] :
     r \in _get_twelvedata_ohlcv(env.twelvedata)}

\* settings.rate_limits[provider] looks the limit up under the enumeration
\* member, which is not one of the keys: KeyError
get_ohlcv_data(provider, env) ==
  IF provider \notin DOMAIN rate_limits
  THEN {fetch_failed("KeyError", <<>>)}
  ELSE IF env.api_calls[provider_value(provider)] < rate_limits[provider]
  THEN IF provider = "Provider.FINNHUB"
       THEN UNION {IF r.raised = "none"
                   THEN {[r EXCEPT !.logged = <<"finnhub">>]}
                   ELSE fallback_fetch(env, <<"finnhub">>) :
                     r \in _get_finnhub_ohlcv(env.finnhub)}
       ELSE fallback_fetch(env, <<provider_value(provider)>>)
  ELSE fallback_fetch(env, <<>>)

\* the outcome of a run: the exception that leaves it ("none" if it returns),
\* the signal it returns, what it wrote to the cache, the reports it mailed
\* and the calls it made, in order
run_raised(exception, stages) ==
  [raised |-> exception, signal |-> <<>>, cached |-> <<>>, emailed |-> <<>>,
   stages |-> stages]

\* step 3 of run_full_analysis: its first line calls trend_engine.get_bias,
\* which trend_engine.py does not define, so the attribute lookup raises and
\* the lines after it (the other stages, the signal, the cache and the mail)
\* never run
core_analysis(df, stages) ==
  run_raised("AttributeError", Append(stages, "trend_engine.get_bias"))

no_frame(fetch) == fetch.raised # "none" \/ fetch.df = <<>> \/ fetch.df[1] = <<>>

run_full_analysis(provider, env) ==
  UNION {
    IF ~no_frame(primary)
    THEN {core_analysis(primary.df[1], <<"get_ohlcv_data">>)}
    ELSE IF provider = "Provider.FINNHUB"
    THEN {IF fallback.raised # "none"
          THEN run_raised(fallback.raised, <<"get_ohlcv_data", "get_ohlcv_data">>)
          ELSE IF no_frame(fallback)
          THEN run_raised("HTTPException", <<"get_ohlcv_data", "get_ohlcv_data">>)
          ELSE core_analysis(fallback.df[1], <<"get_ohlcv_data", "get_ohlcv_data">>) :
            fallback \in get_ohlcv_data("Provider.TWELVEDATA", env)}
    ELSE {run_raised("HTTPException", <<"get_ohlcv_data">>)} :
      primary \in get_ohlcv_data(provider, env)}

(***************************************************************************)
(* The pipeline run: run_pipeline(symbol, series, headlines) ->            *)
(* {trend, structure, sentiment, aggregated, target, time_volatility,      *)
(* risk}.  The components are chained as their contracts prescribe: the    *)
(* three analyses feed the aggregator, bias_confidence and the estimator's *)
(* volatility feed the Risk Sizer, the zone of the order block is the      *)
(* estimator's entry zone.  The target takes an entry price and a risk     *)
(* ratio that are not inputs of the run and is left out of the record.     *)
(* A confidence in hundredths is handed to the aggregator on the 0-1       *)
(* scale, as a numerator over ConfDen; the runs of the model are those     *)
(* whose confidences are such numerators: a series too short for the Trend *)
(* Classifier and at most one headline.                                    *)
(***************************************************************************)
\* hundredths as a numerator over ConfDen
raw_confidence(hundredths) == (hundredths * ConfDen) \div 100

entry_zone_of(structure) ==
  IF structure.order_block = <<>> THEN [kind |-> "none", parts |-> <<>>]
  ELSE [kind |-> "text", parts |-> structure.order_block[1].zone]

run_pipeline(series, polyfit_slope, news, llm, pd_bound, requested_tier) ==
  UNION {
    UNION {
      {[trend |-> c[1], structure |-> c[2], sentiment |-> c[3],
        aggregated |-> a, time_volatility |-> t,
        risk |-> get_position_size(a.bias_confidence, t.volatility, requested_tier)] :
         a \in aggregate_signals(
                 [trend_direction |-> c[1].trend_direction,
                  confidence |-> raw_confidence(c[1].confidence)],
                 [sentiment |-> c[3].sentiment,
                  confidence |-> raw_confidence(c[3].confidence)],
                 [structure_bias |-> c[2].structure_bias])}
      : t \in estimate_time_and_volatility(series, entry_zone_of(c[2]), pd_bound)}
    : c \in analyze_trend(series, polyfit_slope) \X analyze_smc_structure(series)
            \X analyze_sentiment(news, llm)}

(***************************************************************************)
(* The running service.  Besides single calls the program runs as a        *)
(* service: threads of the task pool are inside get_ohlcv_data at the same  *)
(* time and share the api_calls table, the scheduler runs                   *)
(* scheduled_analysis_job over the watchlist, and GET /analyze reads the    *)
(* analysis_cache table and queues background runs.  While a single call    *)
(* is checked the service is idle.                                          *)
(***************************************************************************)
\* threads of the pool that can be inside get_ohlcv_data at once
NumWorkers == 2
Workers == 1 .. NumWorkers

\* background runs that can wait in the queue at once
MaxTasks == 2

\* a thread before it enters get_ohlcv_data
idle_thread == [pc |-> "start", calls |-> 0, result |-> <<>>]

\* the scheduled job before the scheduler triggers it
idle_sweep == [pc |-> "start", symbols |-> <<>>, analyzed |-> <<>>, raised |-> "none"]

\* the keys of analysis_cache: symbols in upper case
CacheKeys == {"AAPL", "MSFT"}

\* the path parameter of GET /analyze/{symbol}, in any letter case
SymbolTexts == {"AAPL", "aapl", "Aapl", "MSFT", "msft"}

\* str.upper
upper(symbol) == IF symbol \in {"AAPL", "aapl", "Aapl"} THEN "AAPL" ELSE "MSFT"

\* no request answered yet
no_reply == [request |-> "", status |-> 0, body |-> <<>>, background_tasks |-> <<>>]

\* the signal dictionaries stored: fields AnalysisOutput declares (status,
\* bias_confidence) and fields it does not (symbol, sl_level)
StoredSignals ==
  [symbol : {<<k>> : k \in CacheKeys}, status : {"ok", "error"},
   bias_confidence : {0, ConfDen}, sl_level : {<<MaxTick>>}]

\* json.loads(json.dumps(data)) of a signal dictionary: string keys, numbers,
\* strings and None come back as they went in
json_round_trip(data) == data

\* set_cached_analysis: INSERT OR REPLACE of the row whose primary key is
\* symbol.upper()
set_cached_analysis(rows, symbol, data) ==
  {row \in rows : row.symbol # upper(symbol)}
  \cup {[symbol |-> upper(symbol), data |-> json_round_trip(data)]}

\* get_cached_analysis: the data of a row keyed symbol.upper(), None without one
get_cached_analysis(rows, symbol) ==
  IF \E row \in rows : row.symbol = upper(symbol)
  THEN <<(CHOOSE row \in rows : row.symbol = upper(symbol)).data>>
  ELSE <<>>

\* AnalysisOutput(**cached): the model keeps the fields it declares and
\* ignores the other keys of the dictionary
AnalysisOutput(cached) == [cached EXCEPT !.symbol = <<>>, !.sl_level = <<>>]

\* get_analysis: what it answers and the tasks it adds to background_tasks
get_analysis(rows, symbol) ==
  LET cached == get_cached_analysis(rows, upper(symbol))
  IN  IF cached # <<>>
      THEN IF cached[1].status = "error"
           THEN [request |-> symbol, status |-> 500, body |-> <<>>,
                 background_tasks |-> <<>>]
           ELSE [request |-> symbol, status |-> 200,
                 body |-> <<AnalysisOutput(cached[1])>>, background_tasks |-> <<>>]
      ELSE [request |-> symbol, status |-> 202, body |-> <<>>,
            background_tasks |-> <<upper(symbol)>>]

ServerIdle ==
  /\ api_calls = [k \in {"finnhub", "twelvedata"} |-> 0]
  /\ threads = [w \in Workers |-> idle_thread]
  /\ sweep = idle_sweep
  /\ cache = {}
  /\ tasks = <<>>
  /\ reply = no_reply

(***************************************************************************)
(* The calls.  A behaviour is one call: Init draws the operation and its   *)
(* arguments, the action of that operation runs it and records what it     *)
(* returned (pc goes from "call" to "done").                               *)
(***************************************************************************)
AggregateArgs ==
  [trend : [trend_direction : Directions, confidence : RawConfs],
   sentiment : [sentiment : Directions, confidence : RawConfs],
   structure : [structure_bias : Directions]]

TpPredictionArgs ==
  [trend_data : [bias : Directions, confidence : TpConfs, momentum : Momenta],
   smc_data : [order_block : OrderBlocks, liquidity_zone : LiquidityZones],
   risk_profile : [entry_price : Prices, risk_ratio : RiskRatios]]

PositionSizeArgs ==
  [confidence : 0 .. 100, volatility : Volatilities, risk_tier : RiskTiers]

TrendArgs == [ohlcv_df : DataFrames, polyfit_slope : Slopes]

SmcArgs == [ohlcv_df : DataFrames]

TimeArgs == [ohlcv_df : DataFrames, entry_zone : TimeEntryZones, pd_bound : BOOLEAN]

LlmSentimentArgs == [headline : Headlines, response : LlmResponses]

\* in turn: no answer, a failed request, a body without success, and bodies
\* with up to HeadlineCap + 2 articles
NewsResponses ==
  {[kind |-> k, titles |-> <<>>] : k \in {"silent", "error", "status"}}
  \cup {[kind |-> "success", titles |-> [i \in 1 .. n |-> h]] :
          n \in 0 .. (HeadlineCap + 2), h \in Headlines}

NewsHeadlinesArgs == [response : NewsResponses]

\* a headline together with the answer the language model gives for it: the
\* three labels read from the answer, a failed request on a headline with a
\* bullish keyword, and no answer
SampleCalls ==
  LET plain == [bullish_word |-> FALSE, bearish_word |-> FALSE]
      content(b, r, n) ==
        [kind |-> "content", bullish |-> b, bearish |-> r, neutral |-> n]
  IN  {[headline |-> plain, response |-> content(TRUE, FALSE, FALSE)],
       [headline |-> plain, response |-> content(FALSE, TRUE, FALSE)],
       [headline |-> plain, response |-> content(FALSE, FALSE, TRUE)],
       [headline |-> [bullish_word |-> TRUE, bearish_word |-> FALSE],
        response |-> [kind |-> "error", bullish |-> FALSE, bearish |-> FALSE,
                      neutral |-> FALSE]],
       [headline |-> plain,
        response |-> [kind |-> "silent", bullish |-> FALSE, bearish |-> FALSE,
                      neutral |-> FALSE]]}

\* lists of up to MaxTitles sample calls, and lists longer than HeadlineCap
\* that repeat one or two sample calls
SampleRuns ==
  UNION {[1 .. n -> SampleCalls] : n \in 0 .. MaxTitles}
  \cup {[i \in 1 .. (HeadlineCap + 2) |-> IF i % 2 = 1 THEN a ELSE b] :
          a \in SampleCalls, b \in SampleCalls}

SentimentArgs ==
  {[news |-> [kind |-> "success", titles |-> [i \in 1 .. Len(p) |-> p[i].headline]],
    llm |-> [i \in 1 .. Len(p) |-> p[i].response]] : p \in SampleRuns}
  \cup {[news |-> [kind |-> k, titles |-> <<>>], llm |-> <<>>] :
          k \in {"silent", "error", "status"}}

\* series too short for the Trend Classifier, lists of at most one headline
PipelineArgs ==
  {[series |-> f, polyfit_slope |-> k, news |-> a.news, llm |-> a.llm,
    pd_bound |-> b, requested_tier |-> r] :
     f \in {<<>>} \cup {<<MakeSeries(n, 90, w, st, j)>> :
                          n \in {x \in SeriesLens : x < MinTrendLen},
                          w \in {0, MaxWick}, st \in 0 .. MaxStep, j \in Jumps},
     k \in {<<0>>, <<MaxSlope>>},
     a \in {x \in SentimentArgs : Len(x.llm) <= 1},
     b \in BOOLEAN, r \in RiskTiers}

FindSwingsArgs == [data : SeriesSet, n : {SwingWindow, DefaultWindow}]

FinnhubArgs == [response : FinnhubResponses]

\* the calls of the last minute: none, or as many as Finnhub's limit
FetchEnvs ==
  [api_calls : {[k \in {"finnhub", "twelvedata"} |-> IF k = "finnhub" THEN c ELSE 0] :
                  c \in {0, rate_limits["finnhub"]}},
   finnhub : FinnhubResponses,
   twelvedata : TwelveDataResponses]

FullAnalysisArgs == [provider : Providers, env : FetchEnvs]

Init ==
  /\ pc = "call"
  /\ ret = <<>>
  /\ ServerIdle
  /\ \/ op = "aggregate_signals" /\ args \in AggregateArgs
     \/ op = "generate_tp_prediction" /\ args \in TpPredictionArgs
     \/ op = "get_position_size" /\ args \in PositionSizeArgs
     \/ op = "analyze_trend" /\ args \in TrendArgs
     \/ op = "analyze_smc_structure" /\ args \in SmcArgs
     \/ op = "find_swings" /\ args \in FindSwingsArgs
     \/ op = "estimate_time_and_volatility" /\ args \in TimeArgs
     \/ op = "get_llm_sentiment" /\ args \in LlmSentimentArgs
     \/ op = "get_news_headlines" /\ args \in NewsHeadlinesArgs
     \/ op = "analyze_sentiment" /\ args \in SentimentArgs
     \/ op = "_get_finnhub_ohlcv" /\ args \in FinnhubArgs
     \/ op = "run_full_analysis" /\ args \in FullAnalysisArgs
     \/ op = "run_pipeline" /\ args \in PipelineArgs

AggregateSignals ==
  /\ pc = "call"
  /\ op = "aggregate_signals"
  /\ \E r \in aggregate_signals(args.trend, args.sentiment, args.structure) : ret' = r
  /\ pc' = "done"
  /\ UNCHANGED <<op, args, server>>

GenerateTpPrediction ==
  /\ pc = "call"
  /\ op = "generate_tp_prediction"
  /\ \E r \in generate_tp_prediction(args.trend_data, args.smc_data, args.risk_profile) :
       ret' = r
  /\ pc' = "done"
  /\ UNCHANGED <<op, args, server>>

GetPositionSize ==
  /\ pc = "call"
  /\ op = "get_position_size"
  /\ ret' = get_position_size(args.confidence, args.volatility, args.risk_tier)
  /\ pc' = "done"
  /\ UNCHANGED <<op, args, server>>

AnalyzeTrend ==
  /\ pc = "call"
  /\ op = "analyze_trend"
  /\ \E r \in analyze_trend(args.ohlcv_df, args.polyfit_slope) : ret' = r
  /\ pc' = "done"
  /\ UNCHANGED <<op, args, server>>

AnalyzeSmcStructure ==
  /\ pc = "call"
  /\ op = "analyze_smc_structure"
  /\ \E r \in analyze_smc_structure(args.ohlcv_df) : ret' = r
  /\ pc' = "done"
  /\ UNCHANGED <<op, args, server>>

FindSwings ==
  /\ pc = "call"
  /\ op = "find_swings"
  /\ ret' = find_swings(args.data, args.n)
  /\ pc' = "done"
  /\ UNCHANGED <<op, args, server>>

EstimateTimeAndVolatility ==
  /\ pc = "call"
  /\ op = "estimate_time_and_volatility"
  /\ \E r \in estimate_time_and_volatility(args.ohlcv_df, args.entry_zone,
                                             args.pd_bound) : ret' = r
  /\ pc' = "done"
  /\ UNCHANGED <<op, args, server>>

GetLlmSentiment ==
  /\ pc = "call"
  /\ op = "get_llm_sentiment"
  /\ \E r \in get_llm_sentiment(args.headline, args.response) : ret' = r
  /\ pc' = "done"
  /\ UNCHANGED <<op, args, server>>

GetNewsHeadlines ==
  /\ pc = "call"
  /\ op = "get_news_headlines"
  /\ \E r \in get_news_headlines(args.response) : ret' = r
  /\ pc' = "done"
  /\ UNCHANGED <<op, args, server>>

AnalyzeSentiment ==
  /\ pc = "call"
  /\ op = "analyze_sentiment"
  /\ \E r \in analyze_sentiment(args.news, args.llm) : ret' = r
  /\ pc' = "done"
  /\ UNCHANGED <<op, args, server>>

GetFinnhubOhlcv ==
  /\ pc = "call"
  /\ op = "_get_finnhub_ohlcv"
  /\ \E r \in _get_finnhub_ohlcv(args.response) : ret' = r
  /\ pc' = "done"
  /\ UNCHANGED <<op, args, server>>

RunFullAnalysis ==
  /\ pc = "call"
  /\ op = "run_full_analysis"
  /\ \E r \in run_full_analysis(args.provider, args.env) : ret' = r
  /\ pc' = "done"
  /\ UNCHANGED <<op, args, server>>

RunPipeline ==
  /\ pc = "call"
  /\ op = "run_pipeline"
  /\ \E r \in run_pipeline(args.series, args.polyfit_slope, args.news, args.llm,
                            args.pd_bound, args.requested_tier) : ret' = r
  /\ pc' = "done"
  /\ UNCHANGED <<op, args, server>>

Next ==
  \/ AggregateSignals
  \/ GenerateTpPrediction
  \/ GetPositionSize
  \/ AnalyzeTrend
  \/ AnalyzeSmcStructure
  \/ FindSwings
  \/ EstimateTimeAndVolatility
  \/ GetLlmSentiment
  \/ GetNewsHeadlines
  \/ AnalyzeSentiment
  \/ GetFinnhubOhlcv
  \/ RunFullAnalysis
  \/ RunPipeline

Spec == Init /\ [][Next]_vars

(***************************************************************************)
(* The calls that go to an external collaborator, on their own: a call     *)
(* whose collaborators answer does return (weak fairness); nothing in the  *)
(* code ends the wait for a collaborator that never answers.               *)
(***************************************************************************)
ExternalInit ==
  /\ pc = "call"
  /\ ret = <<>>
  /\ ServerIdle
  /\ \/ op = "get_llm_sentiment" /\ args \in LlmSentimentArgs
     \/ op = "get_news_headlines" /\ args \in NewsHeadlinesArgs
     \/ op = "analyze_sentiment" /\ args \in SentimentArgs
     \/ op = "_get_finnhub_ohlcv" /\ args \in FinnhubArgs
     \/ op = "run_full_analysis" /\ args \in FullAnalysisArgs

ExternalNext ==
  \/ GetLlmSentiment
  \/ GetNewsHeadlines
  \/ AnalyzeSentiment
  \/ GetFinnhubOhlcv
  \/ RunFullAnalysis

FairSpec == ExternalInit /\ [][ExternalNext]_vars /\ WF_vars(ExternalNext)

(***************************************************************************)
(* Concurrent fetches.  Each thread runs get_ohlcv_data for the same        *)
(* provider: it first counts the rows of the last minute in api_calls, and  *)
(* in a later step compares the count it holds with the limit, fetches and  *)
(* writes its own rows.  Other threads run between the two steps, so the    *)
(* count a thread compares can be stale.  Rows older than a minute stop     *)
(* being counted.                                                          *)
(***************************************************************************)
FetchArgs ==
  [provider : Providers, finnhub : FinnhubResponses, twelvedata : TwelveDataResponses]

\* the rows of the last minute when the threads start: none, one below the
\* limit of the requested provider, or the limit
FetchInit ==
  /\ op = "get_ohlcv_data"
  /\ args \in FetchArgs
  /\ ret = <<>>
  /\ pc = "threads"
  /\ \E c \in {0, rate_limits[provider_value(args.provider)] - 1,
               rate_limits[provider_value(args.provider)]} :
       api_calls = [k \in {"finnhub", "twelvedata"} |->
                      IF k = provider_value(args.provider) THEN c ELSE 0]
  /\ threads = [w \in Workers |-> idle_thread]
  /\ sweep = idle_sweep
  /\ cache = {}
  /\ tasks = <<>>
  /\ reply = no_reply

\* the rows log_api_call adds for provider k during a fetch
rows_logged(logged, k) == Cardinality({i \in DOMAIN logged : logged[i] = k})

\* calls = get_api_calls_in_last_minute(provider.value)
CountCalls(w) ==
  /\ pc = "threads"
  /\ threads[w].pc = "start"
  /\ threads' = [threads EXCEPT ![w] =
                   [@ EXCEPT !.pc = "counted",
                             !.calls = api_calls[provider_value(args.provider)]]]
  /\ UNCHANGED <<call, api_calls, sweep, cache, tasks, reply>>

\* the rest of get_ohlcv_data: the comparison of the count the thread holds
\* with settings.rate_limits[provider], the fetches and their log_api_call rows
FetchAndLog(w) ==
  /\ pc = "threads"
  /\ threads[w].pc = "counted"
  /\ \E r \in get_ohlcv_data(
                args.provider,
                [api_calls |-> [api_calls EXCEPT ![provider_value(args.provider)] =
                                  threads[w].calls],
                 finnhub |-> args.finnhub,
                 twelvedata |-> args.twelvedata]) :
       /\ threads' = [threads EXCEPT ![w] = [@ EXCEPT !.pc = "done", !.result = <<r>>]]
       /\ api_calls' = [k \in {"finnhub", "twelvedata"} |->
                          api_calls[k] + rows_logged(r.logged, k)]
  /\ UNCHANGED <<call, sweep, cache, tasks, reply>>

\* get_api_calls_in_last_minute counts the rows younger than a minute: when a
\* minute has passed the rows counted so far are no longer counted
MinutePasses ==
  /\ pc = "threads"
  /\ \E k \in {"finnhub", "twelvedata"} : api_calls[k] > 0
  /\ api_calls' = [k \in {"finnhub", "twelvedata"} |-> 0]
  /\ UNCHANGED <<call, threads, sweep, cache, tasks, reply>>

FetchNext ==
  \/ \E w \in Workers : CountCalls(w)
  \/ \E w \in Workers : FetchAndLog(w)
  \/ MinutePasses

FetchSpec == FetchInit /\ [][FetchNext]_vars

(***************************************************************************)
(* The scheduled sweep.  scheduled_analysis_job reads the watchlist symbols *)
(* and calls run_full_analysis for each in turn; the loop has no exception  *)
(* handler, so an exception of a run leaves the job.                        *)
(***************************************************************************)
\* the symbols get_unique_symbols_from_watchlist returns: each at most once
Watchlists ==
  {<<>>} \cup {<<sym>> : sym \in CacheKeys}
  \cup {pair \in CacheKeys \X CacheKeys : pair[1] # pair[2]}

SweepArgs == [watchlist : Watchlists, env : FetchEnvs]

SweepInit ==
  /\ op = "scheduled_analysis_job"
  /\ args \in SweepArgs
  /\ ret = <<>>
  /\ pc = "job"
  /\ sweep = idle_sweep
  /\ api_calls = [k \in {"finnhub", "twelvedata"} |-> 0]
  /\ threads = [w \in Workers |-> idle_thread]
  /\ cache = {}
  /\ tasks = <<>>
  /\ reply = no_reply

\* symbols = get_unique_symbols_from_watchlist(); an empty watchlist returns
GetSymbols ==
  /\ pc = "job"
  /\ sweep.pc = "start"
  /\ sweep' = [sweep EXCEPT !.symbols = args.watchlist,
                            !.pc = IF args.watchlist = <<>> THEN "returned" ELSE "loop"]
  /\ UNCHANGED <<call, api_calls, threads, cache, tasks, reply>>

\* one turn of  for sym in symbols: run_full_analysis(sym)
AnalyzeSymbol ==
  /\ pc = "job"
  /\ sweep.pc = "loop"
  /\ \E r \in run_full_analysis("Provider.FINNHUB", args.env) :
       /\ sweep' = [sweep EXCEPT
                      !.analyzed = Append(@, Head(sweep.symbols)),
                      !.symbols = Tail(@),
                      !.raised = r.raised,
                      !.pc = IF r.raised # "none" THEN "raised"
                             ELSE IF Tail(sweep.symbols) = <<>> THEN "returned"
                             ELSE "loop"]
       /\ cache' = IF r.cached = <<>> THEN cache
                   ELSE set_cached_analysis(cache, Head(sweep.symbols), r.cached[1])
  /\ UNCHANGED <<call, api_calls, threads, tasks, reply>>

SweepNext ==
  \/ GetSymbols
  \/ AnalyzeSymbol

SweepSpec == SweepInit /\ [][SweepNext]_vars

(***************************************************************************)
(* GET /analyze and the analysis cache.  cache is the set of rows of the    *)
(* analysis_cache table (symbol, data); set_cached_analysis replaces the    *)
(* row of its symbol.  get_analysis answers from the row if there is one    *)
(* and queues a background run of run_full_analysis if there is none.       *)
(***************************************************************************)
ApiArgs == [env : FetchEnvs]

ApiInit ==
  /\ op = "get_analysis"
  /\ args \in ApiArgs
  /\ ret = <<>>
  /\ pc = "serving"
  /\ cache = {}
  /\ tasks = <<>>
  /\ reply = no_reply
  /\ api_calls = [k \in {"finnhub", "twelvedata"} |-> 0]
  /\ threads = [w \in Workers |-> idle_thread]
  /\ sweep = idle_sweep

\* a request GET /analyze/{symbol}; the tasks it added run after the answer
GetAnalysis(symbol) ==
  /\ pc = "serving"
  /\ Len(tasks) < MaxTasks
  /\ reply' = get_analysis(cache, symbol)
  /\ tasks' = tasks \o reply'.background_tasks
  /\ UNCHANGED <<call, api_calls, threads, sweep, cache>>

\* a queued background task runs run_full_analysis(symbol)
RunTask ==
  /\ pc = "serving"
  /\ tasks # <<>>
  /\ \E r \in run_full_analysis("Provider.FINNHUB", args.env) :
       cache' = IF r.cached = <<>> THEN cache
                ELSE set_cached_analysis(cache, Head(tasks), r.cached[1])
  /\ tasks' = Tail(tasks)
  /\ UNCHANGED <<call, api_calls, threads, sweep, reply>>

\* a call of set_cached_analysis(symbol, data) with a signal of that symbol
SetCachedAnalysis(symbol, data) ==
  /\ pc = "serving"
  /\ data.symbol = <<upper(symbol)>>
  /\ cache' = set_cached_analysis(cache, symbol, data)
  /\ UNCHANGED <<call, api_calls, threads, sweep, tasks, reply>>

ApiNext ==
  \/ \E symbol \in SymbolTexts : GetAnalysis(symbol)
  \/ RunTask
  \/ \E symbol \in SymbolTexts, data \in StoredSignals : SetCachedAnalysis(symbol, data)

ApiSpec == ApiInit /\ [][ApiNext]_vars

(***************************************************************************)
(* Signal Aggregator properties.                                           *)
(***************************************************************************)
\* C1 (as stated): with confidences in [0,1] the buckets are the weighted sums
\* (trend 0.5, sentiment 0.2, structure 0.3 with binary confidence); final_bias is
\* bullish iff the bullish bucket is strictly larger and bias_confidence is then
\* exactly that bucket; mirrored for bearish; equal buckets give neutral with
\* bias_confidence exactly 1 - max(bullish, bearish).
C1_BiasFromBucketsExact ==
  (/\ pc = "done" /\ op = "aggregate_signals"
   /\ args.trend.confidence <= ConfDen /\ args.sentiment.confidence <= ConfDen) =>
    LET fb == ret.component_scores.bullish
        fr == ret.component_scores.bearish
        b == fb[1]
        r == fr[1]
        part(dir, want, hundredths, tenths) == IF dir = want THEN hundredths * tenths ELSE 0
        bucket(want) == part(args.trend.trend_direction, want, 100 * args.trend.confidence, 5)
                        + part(args.sentiment.sentiment, want, 100 * args.sentiment.confidence, 2)
                        + part(args.structure.structure_bias, want, 100 * ConfDen, 3)
    IN  /\ b = bucket("bullish") /\ r = bucket("bearish")
        /\ (ret.final_bias = "bullish") <=> FloatGreater(fb, fr)
        /\ (ret.final_bias = "bearish") <=> FloatGreater(fr, fb)
        /\ (ret.final_bias = "neutral") <=> (fb = fr)
        /\ FloatGreater(fb, fr) => ret.bias_confidence * ScoreDen = 100 * b
        /\ FloatGreater(fr, fb) => ret.bias_confidence * ScoreDen = 100 * r
        /\ (fb = fr) => ret.bias_confidence * ScoreDen = 100 * (ScoreDen - Max2(b, r))

\* C1 (amended): the same decision rule, with bias_confidence equal to the winning
\* bucket (or 1 - max on a tie) rounded to 2 decimals, i.e. within half a hundredth.
C1_BiasFromBucketsRounded ==
  (/\ pc = "done" /\ op = "aggregate_signals"
   /\ args.trend.confidence <= ConfDen /\ args.sentiment.confidence <= ConfDen) =>
    LET fb == ret.component_scores.bullish
        fr == ret.component_scores.bearish
        b == fb[1]
        r == fr[1]
        part(dir, want, hundredths, tenths) == IF dir = want THEN hundredths * tenths ELSE 0
        bucket(want) == part(args.trend.trend_direction, want, 100 * args.trend.confidence, 5)
                        + part(args.sentiment.sentiment, want, 100 * args.sentiment.confidence, 2)
                        + part(args.structure.structure_bias, want, 100 * ConfDen, 3)
        rounded(x) == 2 * Abs(ret.bias_confidence * ScoreDen - 100 * x) <= ScoreDen
    IN  /\ b = bucket("bullish") /\ r = bucket("bearish")
        /\ (ret.final_bias = "bullish") <=> FloatGreater(fb, fr)
        /\ (ret.final_bias = "bearish") <=> FloatGreater(fr, fb)
        /\ (ret.final_bias = "neutral") <=> (fb = fr)
        /\ FloatGreater(fb, fr) => rounded(b)
        /\ FloatGreater(fr, fb) => rounded(r)
        /\ (fb = fr) => rounded(ScoreDen - Max2(b, r))

\* C1 witness: two non-empty buckets tie and the call answered neutral
C1_Witness ==
  /\ pc = "done" /\ op = "aggregate_signals"
  /\ args.trend.confidence <= ConfDen /\ args.sentiment.confidence <= ConfDen
  /\ ret.component_scores.bullish = ret.component_scores.bearish
  /\ ret.component_scores.bullish[1] > 0
  /\ ret.final_bias = "neutral"

\* C2: for raw confidences on the 0-1 or the 0-100 scale, each normalized
\* confidence lies in [0,1], no bucket exceeds 1 and bias_confidence lies in [0,1].
C2_ConfidenceInUnitInterval ==
  (/\ pc = "done" /\ op = "aggregate_signals"
   /\ args.trend.confidence \in 0 .. 100 * ConfDen
   /\ args.sentiment.confidence \in 0 .. 100 * ConfDen) =>
    /\ NormalizeConfidence(args.trend.confidence) \in 0 .. 100 * ConfDen
    /\ NormalizeConfidence(args.sentiment.confidence) \in 0 .. 100 * ConfDen
    /\ ret.component_scores.bullish[1] \in 0 .. ScoreDen
    /\ ret.component_scores.bearish[1] \in 0 .. ScoreDen
    /\ ret.bias_confidence \in 0 .. 100

\* C2 witness: both confidences arrive as percentages and a direction wins
C2_Witness ==
  /\ pc = "done" /\ op = "aggregate_signals"
  /\ args.trend.confidence > ConfDen /\ args.sentiment.confidence > ConfDen
  /\ ret.final_bias = "bullish"
  /\ ret.bias_confidence > 0

\* C3 (as stated): when the three components agree on a non-neutral direction,
\* raising the raw trend confidence or the raw sentiment confidence to any larger
\* accepted raw value never lowers bias_confidence.
C3_MonotoneAnyRaw ==
  (/\ pc = "done" /\ op = "aggregate_signals"
   /\ args.trend.trend_direction # "neutral"
   /\ args.sentiment.sentiment = args.trend.trend_direction
   /\ args.structure.structure_bias = args.trend.trend_direction) =>
    \A c2 \in RawConfs :
      /\ c2 > args.trend.confidence =>
           \A r2 \in aggregate_signals([args.trend EXCEPT !.confidence = c2],
                                       args.sentiment, args.structure) :
             r2.bias_confidence >= ret.bias_confidence
      /\ c2 > args.sentiment.confidence =>
           \A r2 \in aggregate_signals(args.trend,
                                       [args.sentiment EXCEPT !.confidence = c2],
                                       args.structure) :
             r2.bias_confidence >= ret.bias_confidence

\* C3 (amended): the same, provided the two raw values compared lie on the same
\* side of the scale threshold 1 (both at most 1, or both above 1).
C3_MonotoneSameScale ==
  (/\ pc = "done" /\ op = "aggregate_signals"
   /\ args.trend.trend_direction # "neutral"
   /\ args.sentiment.sentiment = args.trend.trend_direction
   /\ args.structure.structure_bias = args.trend.trend_direction) =>
    \A c2 \in RawConfs :
      /\ (c2 > args.trend.confidence /\ (c2 > ConfDen) = (args.trend.confidence > ConfDen)) =>
           \A r2 \in aggregate_signals([args.trend EXCEPT !.confidence = c2],
                                       args.sentiment, args.structure) :
             r2.bias_confidence >= ret.bias_confidence
      /\ (c2 > args.sentiment.confidence /\ (c2 > ConfDen) = (args.sentiment.confidence > ConfDen)) =>
           \A r2 \in aggregate_signals(args.trend,
                                       [args.sentiment EXCEPT !.confidence = c2],
                                       args.structure) :
             r2.bias_confidence >= ret.bias_confidence

\* C3 witness: all three agree, the trend confidence is a percentage below 100
\* and a larger percentage yields a strictly larger bias_confidence
C3_Witness ==
  /\ pc = "done" /\ op = "aggregate_signals"
  /\ args.trend.trend_direction = "bearish"
  /\ args.sentiment.sentiment = "bearish"
  /\ args.structure.structure_bias = "bearish"
  /\ args.trend.confidence > ConfDen
  /\ \E c2 \in RawConfs :
       /\ c2 > args.trend.confidence
       /\ \A r2 \in aggregate_signals([args.trend EXCEPT !.confidence = c2],
                                      args.sentiment, args.structure) :
            r2.bias_confidence > ret.bias_confidence

\* C4 (as stated): when every component reports neutral with confidence 0 the
\* aggregated signal is neutral and low-confidence: bias_confidence below 0.4.
C4_DegenerateIsLowConfidence ==
  (/\ pc = "done" /\ op = "aggregate_signals"
   /\ args.trend.trend_direction = "neutral" /\ args.trend.confidence = 0
   /\ args.sentiment.sentiment = "neutral" /\ args.sentiment.confidence = 0
   /\ args.structure.structure_bias = "neutral") =>
    /\ ret.final_bias = "neutral"
    /\ ret.bias_confidence < 40

(***************************************************************************)
(* Target Engine properties.  Levels and prices are in hundred-thousandths, *)
(* so half a unit of the fourth decimal is 5.                              *)
(***************************************************************************)
\* C5 (as stated): for bias neutral and any other input, tp_level and sl_level
\* equal entry_price exactly and levels contains only entry_price.
C5_NeutralExact ==
  (pc = "done" /\ op = "generate_tp_prediction" /\ args.trend_data.bias = "neutral") =>
    /\ ret.tp_level = args.risk_profile.entry_price
    /\ ret.sl_level = args.risk_profile.entry_price
    /\ ret.levels = <<args.risk_profile.entry_price>>

\* C5 (amended): for bias neutral, tp_level and sl_level are equal and are
\* entry_price rounded to 4 decimals; levels contains only the unrounded entry_price.
C5_NeutralRounded ==
  (pc = "done" /\ op = "generate_tp_prediction" /\ args.trend_data.bias = "neutral") =>
    /\ ret.tp_level = ret.sl_level
    /\ ret.tp_level % 10 = 0
    /\ 2 * Abs(ret.tp_level - args.risk_profile.entry_price) <= 10
    /\ ret.levels = <<args.risk_profile.entry_price>>

\* C5 witness: a neutral call whose entry price has a fifth decimal, with an
\* order block and a liquidity zone away from the entry price
C5_Witness ==
  /\ pc = "done" /\ op = "generate_tp_prediction"
  /\ args.trend_data.bias = "neutral"
  /\ args.risk_profile.entry_price % 10 # 0
  /\ args.smc_data.order_block.kind = "price"
  /\ args.smc_data.order_block.parts[1] < args.risk_profile.entry_price
  /\ args.smc_data.liquidity_zone # <<>>
  /\ args.smc_data.liquidity_zone # <<args.risk_profile.entry_price>>
  /\ ret.tp_level # args.risk_profile.entry_price

\* C6 (as stated): with momentum x confidence > 0 and risk_ratio > 0, bullish
\* gives sl_level <= entry_price <= tp_level and bearish gives
\* tp_level <= entry_price <= sl_level.
C6_LevelsAroundEntry ==
  (/\ pc = "done" /\ op = "generate_tp_prediction"
   /\ args.trend_data.momentum > 0 /\ args.trend_data.confidence > 0
   /\ args.risk_profile.risk_ratio > 0) =>
    LET entry == args.risk_profile.entry_price
    IN  /\ args.trend_data.bias = "bullish" => (ret.sl_level <= entry /\ entry <= ret.tp_level)
        /\ args.trend_data.bias = "bearish" => (ret.tp_level <= entry /\ entry <= ret.sl_level)

\* C6 (amended): with momentum x confidence > 0 and risk_ratio > 0, bullish gives
\* sl_level <= tp_level with neither level on the wrong side of entry_price by
\* more than the rounding of the returned level (half a unit of the fourth
\* decimal); bearish is the mirror.
C6_LevelsAroundEntryRounded ==
  (/\ pc = "done" /\ op = "generate_tp_prediction"
   /\ args.trend_data.momentum > 0 /\ args.trend_data.confidence > 0
   /\ args.risk_profile.risk_ratio > 0) =>
    LET entry == args.risk_profile.entry_price
    IN  /\ args.trend_data.bias = "bullish" =>
              /\ ret.sl_level <= ret.tp_level
              /\ 2 * (ret.sl_level - entry) <= 10
              /\ 2 * (entry - ret.tp_level) <= 10
        /\ args.trend_data.bias = "bearish" =>
              /\ ret.tp_level <= ret.sl_level
              /\ 2 * (ret.tp_level - entry) <= 10
              /\ 2 * (entry - ret.sl_level) <= 10

\* C6 witness: a bullish call that returned a target above and a stop below the entry
C6_Witness ==
  /\ pc = "done" /\ op = "generate_tp_prediction"
  /\ args.trend_data.bias = "bullish"
  /\ args.trend_data.momentum > 0 /\ args.trend_data.confidence > 0
  /\ args.risk_profile.risk_ratio > 0
  /\ ~ret.error
  /\ ret.sl_level < args.risk_profile.entry_price
  /\ ret.tp_level > args.risk_profile.entry_price

\* C7 (as stated): for bias bullish and momentum x confidence > 0, levels[0] lies
\* strictly between entry_price and tp_level, whatever the zones, also when no
\* zone lies above the entry price.  Stated here for the calls that compute a
\* target (numeric liquidity zone, parsable order block, risk_ratio > 0), so that
\* a violation is one of the computed levels and not of the except branch.
C7_IntermediateStrictlyBetween ==
  (/\ pc = "done" /\ op = "generate_tp_prediction"
   /\ args.trend_data.bias = "bullish"
   /\ args.trend_data.momentum > 0 /\ args.trend_data.confidence > 0
   /\ args.smc_data.order_block.kind # "dict"
   /\ args.smc_data.liquidity_zone # <<>>
   /\ args.risk_profile.risk_ratio > 0) =>
    /\ args.risk_profile.entry_price < ret.levels[1]
    /\ ret.levels[1] < ret.tp_level

\* C8 (as stated): for bullish and bearish calls with a numeric liquidity zone, a
\* non-zero risk ratio and an order block that is absent, a bare price or a
\* two-bound zone, tp_level and sl_level equal the reference computation:
\* price_multiplier = max(momentum x confidence, 0.01), confidence divided by 100
\* when above 1; base_tp = max (bullish) or min (bearish) of the order-block
\* bound (upper for bullish, lower for bearish, entry_price when absent), the
\* liquidity zone and entry_price; tp_distance = |base_tp - entry_price| x
\* price_multiplier; tp = base_tp +/- tp_distance; sl = entry_price -/+
\* tp_distance / risk_ratio.
C8_EqualsReference ==
  (/\ pc = "done" /\ op = "generate_tp_prediction"
   /\ args.trend_data.bias # "neutral"
   /\ args.smc_data.liquidity_zone # <<>>
   /\ args.risk_profile.risk_ratio > 0
   /\ \/ args.smc_data.order_block.kind \in {"none", "price"}
      \/ args.smc_data.order_block.kind = "zone" /\ Len(args.smc_data.order_block.parts) = 2) =>
    LET bull == args.trend_data.bias = "bullish"
        entry == args.risk_profile.entry_price
        rr == args.risk_profile.risk_ratio
        ob == args.smc_data.order_block
        c == IF args.trend_data.confidence > ConfDen
               THEN args.trend_data.confidence ELSE 100 * args.trend_data.confidence
        pm == Max2(args.trend_data.momentum * c, 2 * ConfDen)
        obp == IF ob.kind = "none" THEN entry
               ELSE IF ob.kind = "price" THEN ob.parts[1]
               ELSE IF bull THEN ob.parts[2] ELSE ob.parts[1]
        lz == args.smc_data.liquidity_zone[1]
        base == IF bull THEN Max2(obp, Max2(lz, entry)) ELSE Min2(obp, Min2(lz, entry))
        dist == Abs(base - entry) * pm
        tp == IF bull THEN base * MultDen + dist ELSE base * MultDen - dist
        sl == IF bull THEN entry * MultDen * rr - 2 * dist ELSE entry * MultDen * rr + 2 * dist
    IN  /\ ret.tp_level * MultDen = tp
        /\ ret.sl_level * MultDen * rr = sl

\* C8 (amended): the same reference computation, with the returned tp_level and
\* sl_level equal to the reference values rounded to 4 decimals.
C8_EqualsReferenceRounded ==
  (/\ pc = "done" /\ op = "generate_tp_prediction"
   /\ args.trend_data.bias # "neutral"
   /\ args.smc_data.liquidity_zone # <<>>
   /\ args.risk_profile.risk_ratio > 0
   /\ \/ args.smc_data.order_block.kind \in {"none", "price"}
      \/ args.smc_data.order_block.kind = "zone" /\ Len(args.smc_data.order_block.parts) = 2) =>
    LET bull == args.trend_data.bias = "bullish"
        entry == args.risk_profile.entry_price
        rr == args.risk_profile.risk_ratio
        ob == args.smc_data.order_block
        c == IF args.trend_data.confidence > ConfDen
               THEN args.trend_data.confidence ELSE 100 * args.trend_data.confidence
        pm == Max2(args.trend_data.momentum * c, 2 * ConfDen)
        obp == IF ob.kind = "none" THEN entry
               ELSE IF ob.kind = "price" THEN ob.parts[1]
               ELSE IF bull THEN ob.parts[2] ELSE ob.parts[1]
        lz == args.smc_data.liquidity_zone[1]
        base == IF bull THEN Max2(obp, Max2(lz, entry)) ELSE Min2(obp, Min2(lz, entry))
        dist == Abs(base - entry) * pm
        tp == IF bull THEN base * MultDen + dist ELSE base * MultDen - dist
        sl == IF bull THEN entry * MultDen * rr - 2 * dist ELSE entry * MultDen * rr + 2 * dist
    IN  /\ ~ret.error
        /\ ret.tp_level % 10 = 0
        /\ 2 * Abs(ret.tp_level * MultDen - tp) <= 10 * MultDen
        /\ ret.sl_level % 10 = 0
        /\ 2 * Abs(ret.sl_level * MultDen * rr - sl) <= 10 * MultDen * rr

\* C8 witness: a bullish call anchored on the upper bound of a two-bound order
\* block, with a multiplier above the floor and a target that needed rounding
C8_Witness ==
  /\ pc = "done" /\ op = "generate_tp_prediction"
  /\ args.trend_data.bias = "bullish"
  /\ args.trend_data.momentum > 0 /\ args.trend_data.confidence = ConfDen
  /\ args.risk_profile.risk_ratio > 0
  /\ args.smc_data.liquidity_zone # <<>>
  /\ args.smc_data.order_block.kind = "zone"
  /\ Len(args.smc_data.order_block.parts) = 2
  /\ args.smc_data.order_block.parts[1] < args.smc_data.order_block.parts[2]
  /\ args.smc_data.order_block.parts[2] > args.risk_profile.entry_price
  /\ args.smc_data.order_block.parts[2] > args.smc_data.liquidity_zone[1]
  /\ ~ret.error
  /\ ret.tp_level > args.smc_data.order_block.parts[2]

(***************************************************************************)
(* Risk Sizer properties.                                                  *)
(***************************************************************************)
\* C9: the rules apply in strict precedence, first match wins: confidence < 0.4
\* gives conservative (lot 0.01); otherwise high volatility gives conservative;
\* otherwise confidence > 0.75 gives aggressive; otherwise the requested tier.
\* The result is never aggressive when volatility is high or confidence < 0.4.
C9_RulePrecedence ==
  (pc = "done" /\ op = "get_position_size") =>
    LET c == args.confidence
        v == args.volatility
        p == ret.risk_profile
    IN  /\ (c < 40) => (p = "conservative" /\ ret.suggested_lot_size = 1)
        /\ (c >= 40 /\ v = "high") => (p = "conservative" /\ ret.suggested_lot_size = 1)
        /\ (c >= 40 /\ v # "high" /\ c > 75) => (p = "aggressive" /\ ret.suggested_lot_size = 100)
        /\ (c >= 40 /\ v # "high" /\ c <= 75) => p = args.risk_tier
        /\ (v = "high" \/ c < 40) => p # "aggressive"

\* C9 witness: aggressive requested, confidence above 0.75, volatility high
C9_Witness ==
  /\ pc = "done" /\ op = "get_position_size"
  /\ args.risk_tier = "aggressive" /\ args.confidence > 75 /\ args.volatility = "high"
  /\ ret.risk_profile = "conservative"

\* C10 (as stated): for every confidence, volatility and requested tier, known
\* or not, risk_profile is one of conservative, medium, aggressive and
\* suggested_lot_size is the table value of that profile (0.01, 0.10, 1.00).
C10_ProfileInTable ==
  (pc = "done" /\ op = "get_position_size") =>
    \/ ret.risk_profile = "conservative" /\ ret.suggested_lot_size = 1
    \/ ret.risk_profile = "medium" /\ ret.suggested_lot_size = 10
    \/ ret.risk_profile = "aggressive" /\ ret.suggested_lot_size = 100

(***************************************************************************)
(* Series engines on short series; Time/Volatility Estimator properties.   *)
(***************************************************************************)
\* C11: a series shorter than the component's minimum (trend 20, structure 25,
\* time/volatility 10), an absent series included, gives a neutral/unavailable
\* result with confidence 0 where there is one, and the result carries an error
\* tag.
C11_ShortSeriesTagged ==
  /\ (/\ pc = "done" /\ op = "analyze_trend"
      /\ (args.ohlcv_df = <<>> \/ Len(args.ohlcv_df[1]) < 20)) =>
       /\ ret.trend_direction = "neutral"
       /\ ret.confidence = 0
       /\ ret.error
  /\ (/\ pc = "done" /\ op = "analyze_smc_structure"
      /\ (args.ohlcv_df = <<>> \/ Len(args.ohlcv_df[1]) < 25)) =>
       /\ ret.structure_bias = "neutral"
       /\ ret.bos_detected = "none"
       /\ ret.order_block = <<>>
       /\ ret.error
  /\ (/\ pc = "done" /\ op = "estimate_time_and_volatility"
      /\ (args.ohlcv_df = <<>> \/ Len(args.ohlcv_df[1]) < 10)) =>
       /\ ret.estimated_entry_time = NotAvailable
       /\ ret.tp_eta = NotAvailable
       /\ ret.error

\* C12: on every path the volatility of the estimator's result is one of low,
\* moderate, high; on the normal path it is high iff ATR / close > 0.005,
\* moderate iff 0.002 < ATR / close <= 0.005, and low otherwise.
C12_VolatilityInTiers ==
  (pc = "done" /\ op = "estimate_time_and_volatility") =>
    /\ ret.volatility \in {"low", "moderate", "high"}
    /\ (/\ args.ohlcv_df # <<>>
        /\ Len(args.ohlcv_df[1]) >= AtrWindow
        /\ avg_candle_size(args.ohlcv_df[1])[1] # 0
        /\ ~ret.error) =>
         LET df == args.ohlcv_df[1]
             a == atr(df)
             close == df[Len(df)].close
         IN  /\ ret.volatility = "high" <=> 1000 * a[1] > 5 * a[2] * close
             /\ ret.volatility = "moderate" <=>
                  /\ 1000 * a[1] > 2 * a[2] * close
                  /\ 1000 * a[1] <= 5 * a[2] * close

\* C13: with entry_zone "100 -- 110", a last close of 90 and an average candle
\* size of 2, estimated_entry_time comes from a distance of 10: 5 candles,
\* 75 minutes, reported in the hours form (1.25 hours to one decimal).
C13_ScenarioFromDistanceTen ==
  (/\ pc = "done" /\ op = "estimate_time_and_volatility"
   /\ args.pd_bound
   /\ args.entry_zone = [kind |-> "text", parts |-> <<100, 110>>]
   /\ args.ohlcv_df # <<>>
   /\ Len(args.ohlcv_df[1]) >= 10
   /\ args.ohlcv_df[1][Len(args.ohlcv_df[1])].close = 90
   /\ avg_candle_size(args.ohlcv_df[1])[1] = 2 * avg_candle_size(args.ohlcv_df[1])[2]) =>
    /\ ret.estimated_entry_time.form = "in_hours"
    /\ ret.estimated_entry_time.value \in RoundNearest(10 * 75, 60)

\* C14: with a non-zero average candle size and a zone of two prices, the time
\* to target behind tp_eta is exactly twice the time to entry behind
\* estimated_entry_time, and both texts are bucketed by one rule: hours form
\* from 60 minutes on, minutes form below.
C14_TpTwiceEntrySameBuckets ==
  (/\ pc = "done" /\ op = "estimate_time_and_volatility"
   /\ args.pd_bound
   /\ args.entry_zone.kind = "text"
   /\ Len(args.entry_zone.parts) = 2
   /\ args.ohlcv_df # <<>>
   /\ Len(args.ohlcv_df[1]) >= 10
   /\ avg_candle_size(args.ohlcv_df[1])[1] # 0) =>
    LET entry == minutes_to_entry(args.ohlcv_df[1], args.entry_zone)
        tp == minutes_to_tp(args.ohlcv_df[1], args.entry_zone)
    IN  /\ tp[1] * entry[2] = 2 * entry[1] * tp[2]
        /\ ret.tp_eta.form \in {"in_hours", "within_hours"} <=> tp[1] >= 60 * tp[2]
        /\ ret.estimated_entry_time.form = "in_hours" <=> entry[1] >= 60 * entry[2]

(***************************************************************************)
(* Sentiment Classifier properties.                                        *)
(***************************************************************************)
\* C15: when the headline provider yields no headline (an empty list of
\* articles, a body without success or a failed request), analyze_sentiment
\* returns neutral with confidence 1.0 and calls the classifier zero times.
C15_NoHeadlinesNeutral ==
  (/\ pc = "done" /\ op = "analyze_sentiment"
   /\ (args.news.kind \in {"error", "status"} \/ args.news.titles = <<>>)) =>
    /\ ret.sentiment = "neutral"
    /\ ret.confidence = 100
    /\ ret.llm_calls = 0
    /\ ~ret.error

C15_Witness ==
  /\ pc = "done" /\ op = "analyze_sentiment"
  /\ args.news.kind = "error"
  /\ ret.sentiment = "neutral"
  /\ ret.confidence = 100
  /\ ret.llm_calls = 0

\* C16 (as stated): for a non-empty list of at most 10 headlines and any
\* labelling, the returned label has a maximal count, confidence is exactly that
\* count over the number of headlines and lies in (0, 1], and among labels of
\* equal maximal count the one first seen earliest is returned.
C16_MajorityExact ==
  (/\ pc = "done" /\ op = "analyze_sentiment"
   /\ args.news.kind = "success" /\ args.news.titles # <<>>) =>
    LET n == Min2(Len(args.news.titles), 10)
        label(i) == CHOOSE l \in get_llm_sentiment(args.news.titles[i], args.llm[i]) : TRUE
        count(l) == Cardinality({i \in 1 .. n : lower(label(i)) = l})
        first(l) == CHOOSE i \in 1 .. n :
                      lower(label(i)) = l /\ \A j \in 1 .. (i - 1) : lower(label(j)) # l
    IN  /\ \A l \in Directions : count(l) <= count(ret.sentiment)
        /\ ret.confidence * n = 100 * count(ret.sentiment)
        /\ ret.confidence > 0 /\ ret.confidence <= 100
        /\ \A l \in Directions :
             (l # ret.sentiment /\ count(l) = count(ret.sentiment)) =>
               first(ret.sentiment) < first(l)

\* C16 (amended): as above, with confidence the count over the number of
\* headlines rounded to two decimals.
C16_MajorityRounded ==
  (/\ pc = "done" /\ op = "analyze_sentiment"
   /\ args.news.kind = "success" /\ args.news.titles # <<>>) =>
    LET n == Min2(Len(args.news.titles), 10)
        label(i) == CHOOSE l \in get_llm_sentiment(args.news.titles[i], args.llm[i]) : TRUE
        count(l) == Cardinality({i \in 1 .. n : lower(label(i)) = l})
        first(l) == CHOOSE i \in 1 .. n :
                      lower(label(i)) = l /\ \A j \in 1 .. (i - 1) : lower(label(j)) # l
    IN  /\ \A l \in Directions : count(l) <= count(ret.sentiment)
        /\ ret.confidence \in RoundNearest(100 * count(ret.sentiment), n)
        /\ ret.confidence > 0 /\ ret.confidence <= 100
        /\ ret.llm_calls = n
        /\ \A l \in Directions :
             (l # ret.sentiment /\ count(l) = count(ret.sentiment)) =>
               first(ret.sentiment) < first(l)

\* three headlines labelled Bearish, Neutral, Bullish: a three-way tie, the
\* first label wins, confidence 1/3 is returned as 0.33
C16_Witness ==
  /\ pc = "done" /\ op = "analyze_sentiment"
  /\ args.news.kind = "success" /\ Len(args.news.titles) = 3
  /\ get_llm_sentiment(args.news.titles[1], args.llm[1]) = {"Bearish"}
  /\ get_llm_sentiment(args.news.titles[2], args.llm[2]) = {"Neutral"}
  /\ get_llm_sentiment(args.news.titles[3], args.llm[3]) = {"Bullish"}
  /\ ret.sentiment = "bearish"
  /\ ret.confidence = 33

\* C17: whenever the language-model path fails (the request raises, or the
\* answer names none of Bullish, Bearish, Neutral), get_llm_sentiment returns
\* exactly the label of the keyword matcher, and always one of the three labels.
C17_FallbackOnFailure ==
  (pc = "done" /\ op = "get_llm_sentiment") =>
    /\ ret \in Labels
    /\ (\/ args.response.kind = "error"
        \/ /\ args.response.kind = "content"
           /\ ~args.response.bullish
           /\ ~args.response.bearish
           /\ ~args.response.neutral) =>
         ret = keyword_sentiment(args.headline)

(***************************************************************************)
(* External calls and the analysis pipeline.                               *)
(***************************************************************************)
\* C18: a call that goes to an external collaborator (candle provider,
\* headline provider, language model) eventually returns, also when the
\* collaborator never answers: the wait is bounded by a timeout and the
\* fallback is taken.
C18_ExternalCallsReturn ==
  (/\ pc = "call"
   /\ op \in {"_get_finnhub_ohlcv", "get_news_headlines", "get_llm_sentiment",
              "analyze_sentiment", "run_full_analysis"}) ~> (pc = "done")

\* C19: run_full_analysis fails hard iff no provider it may ask (the requested
\* one, and Twelve Data when Finnhub was requested) yields a non-empty series;
\* otherwise it returns a signal with status ok; a run that fails hard writes
\* nothing to the cache and mails nothing.
C19_HardFailureIffNoSeries ==
  (pc = "done" /\ op = "run_full_analysis") =>
    LET some_series ==
          \/ args.env.twelvedata.kind = "ok" /\ args.env.twelvedata.rows # <<>>
          \/ /\ args.provider = "Provider.FINNHUB"
             /\ args.env.finnhub.kind = "ok"
             /\ args.env.api_calls["finnhub"] < 60
    IN  /\ ret.raised # "none" <=> ~some_series
        /\ some_series => ret.signal # <<>> /\ ret.signal[1].status = "ok"
        /\ ret.raised # "none" => ret.cached = <<>> /\ ret.emailed = <<>>

\* C20: a run that has a candle series calls the Signal Aggregator before the
\* Target Engine and the Risk Sizer, and emits a signal (whose bias_confidence
\* is the aggregator's).
C20_AggregatorBeforeTarget ==
  (/\ pc = "done" /\ op = "run_full_analysis"
   /\ args.env.twelvedata.kind = "ok" /\ args.env.twelvedata.rows # <<>>) =>
    /\ ret.raised = "none"
    /\ ret.signal # <<>>
    /\ \E i, j \in 1 .. Len(ret.stages) :
         /\ i < j
         /\ ret.stages[i] = "aggregator.aggregate_signals"
         /\ ret.stages[j] = "tp_engine.generate_tp_prediction"

(***************************************************************************)
(* C21 (as stated): for a series of at least 25 candles the BOS is bullish *)
(* when only close > H holds, bearish when only close < L holds, none when *)
(* neither holds, and when both hold the direction of the later of the two *)
(* second most recent swing points; key_level is the price of the broken   *)
(* swing, or the current close when nothing is broken.                     *)
(***************************************************************************)
C21_BosKeyLevelExact ==
  (/\ pc = "done" /\ op = "analyze_smc_structure"
   /\ args.ohlcv_df # <<>> /\ Len(args.ohlcv_df[1]) >= MinSmcLen) =>
    LET df == args.ohlcv_df[1]
        close == df[Len(df)].close
        swings == find_swings(df, SwingWindow)
        highs == swings.swing_high
        lows == swings.swing_low
        H == df[SecondLast(highs)].high
        L == df[SecondLast(lows)].low
        above == Cardinality(highs) >= 2 /\ close > H
        below == Cardinality(lows) >= 2 /\ close < L
        is(bos, level) == ret.bos_detected = bos /\ ret.key_level = <<level>>
    IN  /\ (above /\ ~below) => is("bullish", H)
        /\ (below /\ ~above) => is("bearish", L)
        /\ (~above /\ ~below) => is("none", close)
        /\ (above /\ below /\ SecondLast(highs) > SecondLast(lows)) => is("bullish", H)
        /\ (above /\ below /\ SecondLast(lows) > SecondLast(highs)) => is("bearish", L)

(***************************************************************************)
(* C21 (amended): the BOS is classified as stated, and key_level is the    *)
(* price of the broken swing, or the current close, rounded to 4 decimals. *)
(***************************************************************************)
C21_BosKeyLevelRounded ==
  (/\ pc = "done" /\ op = "analyze_smc_structure"
   /\ args.ohlcv_df # <<>> /\ Len(args.ohlcv_df[1]) >= MinSmcLen) =>
    LET df == args.ohlcv_df[1]
        close == df[Len(df)].close
        swings == find_swings(df, SwingWindow)
        highs == swings.swing_high
        lows == swings.swing_low
        H == df[SecondLast(highs)].high
        L == df[SecondLast(lows)].low
        above == Cardinality(highs) >= 2 /\ close > H
        below == Cardinality(lows) >= 2 /\ close < L
        is(bos, level) == ret.bos_detected = bos /\ ret.key_level \in {<<k>> : k \in Round4(<<level, 1>>)}
    IN  /\ (above /\ ~below) => is("bullish", H)
        /\ (below /\ ~above) => is("bearish", L)
        /\ (~above /\ ~below) => is("none", close)
        /\ (above /\ below /\ SecondLast(highs) > SecondLast(lows)) => is("bullish", H)
        /\ (above /\ below /\ SecondLast(lows) > SecondLast(highs)) => is("bearish", L)

\* both breaks hold, the swing high is the later one, and the rounding moves
\* the level
C21_Witness ==
  /\ pc = "done" /\ op = "analyze_smc_structure"
  /\ args.ohlcv_df # <<>> /\ Len(args.ohlcv_df[1]) >= MinSmcLen
  /\ LET df == args.ohlcv_df[1]
         close == df[Len(df)].close
         swings == find_swings(df, SwingWindow)
         highs == swings.swing_high
         lows == swings.swing_low
     IN  /\ Cardinality(highs) >= 2 /\ Cardinality(lows) >= 2
         /\ close > df[SecondLast(highs)].high
         /\ close < df[SecondLast(lows)].low
         /\ SecondLast(highs) > SecondLast(lows)
         /\ ret.bos_detected = "bullish"
         /\ ret.key_level # <<df[SecondLast(highs)].high>>

(***************************************************************************)
(* C22 (as stated): an order block is reported exactly when a BOS was      *)
(* detected and one of the up to 10 candles before the broken swing is of  *)
(* the opposite colour; it is the last such candle, its zone that candle's *)
(* [low, high], its level their midpoint (kept in halves of a unit), its   *)
(* type the BOS; otherwise order_block is None.                            *)
(***************************************************************************)
C22_OrderBlockZoneExact ==
  (/\ pc = "done" /\ op = "analyze_smc_structure"
   /\ args.ohlcv_df # <<>> /\ Len(args.ohlcv_df[1]) >= MinSmcLen) =>
    LET df == args.ohlcv_df[1]
        swings == find_swings(df, SwingWindow)
        bos == ret.bos_detected
        broken == IF bos = "bullish" THEN SecondLast(swings.swing_high)
                  ELSE SecondLast(swings.swing_low)
        preceding == {i \in (broken - LookbackCandles) .. (broken - 1) : i >= 1}
        opposite == {i \in preceding :
                       IF bos = "bullish" THEN df[i].close < df[i].open
                       ELSE df[i].close > df[i].open}
        candle == df[Last(opposite)]
    IN  IF bos # "none" /\ opposite # {}
        THEN /\ ret.order_block # <<>>
             /\ ret.order_block[1].type = bos
             /\ ret.order_block[1].zone = <<candle.low, candle.high>>
             /\ ret.order_block[1].level = candle.low + candle.high
        ELSE ret.order_block = <<>>

(***************************************************************************)
(* C22 (amended): as stated, the zone being the text of that candle's low  *)
(* and high formatted to 4 decimals.                                       *)
(***************************************************************************)
C22_OrderBlockZoneFormatted ==
  (/\ pc = "done" /\ op = "analyze_smc_structure"
   /\ args.ohlcv_df # <<>> /\ Len(args.ohlcv_df[1]) >= MinSmcLen) =>
    LET df == args.ohlcv_df[1]
        swings == find_swings(df, SwingWindow)
        bos == ret.bos_detected
        broken == IF bos = "bullish" THEN SecondLast(swings.swing_high)
                  ELSE SecondLast(swings.swing_low)
        preceding == {i \in (broken - LookbackCandles) .. (broken - 1) : i >= 1}
        opposite == {i \in preceding :
                       IF bos = "bullish" THEN df[i].close < df[i].open
                       ELSE df[i].close > df[i].open}
        candle == df[Last(opposite)]
    IN  IF bos # "none" /\ opposite # {}
        THEN /\ ret.order_block # <<>>
             /\ ret.order_block[1].type = bos
             /\ ret.order_block[1].zone \in Round4(<<candle.low, 1>>) \X Round4(<<candle.high, 1>>)
             /\ ret.order_block[1].level = candle.low + candle.high
        ELSE ret.order_block = <<>>

\* a bearish break with an order block whose zone text differs from the
\* candle's prices
C22_Witness ==
  /\ pc = "done" /\ op = "analyze_smc_structure"
  /\ ret.bos_detected = "bearish"
  /\ ret.order_block # <<>>
  /\ LET df == args.ohlcv_df[1]
         lows == find_swings(df, SwingWindow).swing_low
         rising == {i \in lookback(df, lows) : df[i].close > df[i].open}
     IN  /\ Cardinality(rising) >= 2
         /\ ret.order_block[1].zone # <<df[Last(rising)].low, df[Last(rising)].high>>

(***************************************************************************)
(* C23: swing detection is symmetric under mirroring.  The mirror of a     *)
(* series has its candles in reverse order with high and low exchanged     *)
(* (prices reflected, so that a highest high becomes a lowest low);        *)
(* find_swings labels candle i of the mirror a swing high exactly when it  *)
(* labelled the mirrored candle of the original a swing low, and the other *)
(* way round, also when highs or lows repeat inside a window.              *)
(***************************************************************************)
C23_MirrorSymmetric ==
  (pc = "done" /\ op = "find_swings") =>
    LET df == args.data
        len == Len(df)
        mirror == [i \in 1 .. len |->
                     [open |-> -df[len + 1 - i].close, high |-> -df[len + 1 - i].low,
                      low |-> -df[len + 1 - i].high, close |-> -df[len + 1 - i].open]]
        mirrored == find_swings(mirror, args.n)
    IN  \A i \in 1 .. len :
          /\ i \in mirrored.swing_high <=> (len + 1 - i) \in ret.swing_low
          /\ i \in mirrored.swing_low <=> (len + 1 - i) \in ret.swing_high

(***************************************************************************)
(* C24 (as stated): for a series of at least 20 candles with a price range *)
(* the trend is bullish iff slope > threshold, bearish iff slope <         *)
(* -threshold and neutral otherwise, threshold = 0.05 * mean absolute      *)
(* change of the closes; confidence is c = min(|normalized slope| * 10, 1) *)
(* for bullish or bearish and 1 - c for neutral; equal closes give         *)
(* neutral, confidence 0 and an error tag.  (Whenever the line fit yields  *)
(* a slope; confidence is kept in hundredths.)                             *)
(***************************************************************************)
C24_TrendConfidenceExact ==
  (/\ pc = "done" /\ op = "analyze_trend"
   /\ args.ohlcv_df # <<>> /\ Len(args.ohlcv_df[1]) >= MinTrendLen
   /\ args.polyfit_slope # <<>>) =>
    LET df == args.ohlcv_df[1]
        k == args.polyfit_slope[1]
        \* slope = k / SlopeDen, threshold = 0.05 * mean |close[i+1] - close[i]|
        above == 20 * k * (Len(df) - 1) > SlopeDen * abs_changes(df)
        below == 20 * k * (Len(df) - 1) < -(SlopeDen * abs_changes(df))
        \* c = min(|slope / (range / len)| * 10, 1) = cnum / cden
        num == 10 * Abs(k) * Len(df)
        den == SlopeDen * price_range(df)
        cnum == IF num >= den THEN den ELSE num
        cden == den
        shown == IF above \/ below THEN cnum ELSE cden - cnum
    IN  IF price_range(df) = 0
        THEN ret.trend_direction = "neutral" /\ ret.confidence = 0 /\ ret.error
        ELSE /\ ret.trend_direction = "bullish" <=> above
             /\ ret.trend_direction = "bearish" <=> below
             /\ ret.trend_direction = "neutral" <=> (~above /\ ~below)
             /\ ret.confidence * cden = 100 * shown
             /\ ret.confidence >= 0 /\ ret.confidence <= 100

(***************************************************************************)
(* C24 (amended): as stated, the confidence being c, or 1 - c for neutral, *)
(* rounded to 2 decimals.                                                  *)
(***************************************************************************)
C24_TrendConfidenceRounded ==
  (/\ pc = "done" /\ op = "analyze_trend"
   /\ args.ohlcv_df # <<>> /\ Len(args.ohlcv_df[1]) >= MinTrendLen
   /\ args.polyfit_slope # <<>>) =>
    LET df == args.ohlcv_df[1]
        k == args.polyfit_slope[1]
        \* slope = k / SlopeDen, threshold = 0.05 * mean |close[i+1] - close[i]|
        above == 20 * k * (Len(df) - 1) > SlopeDen * abs_changes(df)
        below == 20 * k * (Len(df) - 1) < -(SlopeDen * abs_changes(df))
        \* c = min(|slope / (range / len)| * 10, 1) = cnum / cden
        num == 10 * Abs(k) * Len(df)
        den == SlopeDen * price_range(df)
        cnum == IF num >= den THEN den ELSE num
        cden == den
        shown == IF above \/ below THEN cnum ELSE cden - cnum
    IN  IF price_range(df) = 0
        THEN ret.trend_direction = "neutral" /\ ret.confidence = 0 /\ ret.error
        ELSE /\ ret.trend_direction = "bullish" <=> above
             /\ ret.trend_direction = "bearish" <=> below
             /\ ret.trend_direction = "neutral" <=> (~above /\ ~below)
             /\ ret.confidence \in RoundNearest(100 * shown, cden)
             /\ ret.confidence >= 0 /\ ret.confidence <= 100

\* a bullish trend whose confidence is not a whole number of hundredths
C24_Witness ==
  /\ pc = "done" /\ op = "analyze_trend"
  /\ ret.trend_direction = "bullish"
  /\ ~ret.error
  /\ LET df == args.ohlcv_df[1]
         num == 10 * Abs(args.polyfit_slope[1]) * Len(df)
         den == SlopeDen * price_range(df)
     IN  num < den /\ ret.confidence * den # 100 * num

C26_RewardCoversRisk ==
  (/\ pc = "done" /\ op = "generate_tp_prediction"
   /\ ret.bias \in {"bullish", "bearish"} /\ ~ret.error
   /\ args.risk_profile.risk_ratio > 0) =>
    LET entry_price == args.risk_profile.entry_price
        risk_ratio == args.risk_profile.risk_ratio
        base == base_tp(ret.bias,
                        order_block_price(args.smc_data.order_block, entry_price, ret.bias),
                        args.smc_data.liquidity_zone[1], entry_price)
        exact == tp_sl_levels(ret.bias, base, entry_price,
                              price_multiplier(args.trend_data.momentum,
                                               args.trend_data.confidence),
                              risk_ratio)
        reward == Abs(exact.tp[1] - entry_price * exact.tp[2])
        risk == Abs(entry_price * exact.sl[2] - exact.sl[1])
    IN  base # entry_price =>
          /\ ret.tp_level \in Round4(exact.tp)
          /\ ret.sl_level \in Round4(exact.sl)
          /\ 2 * reward * exact.sl[2] >= risk_ratio * risk * exact.tp[2]

\* a bearish target below the entry, with a stop above it and a risk ratio
\* of more than 1
C26_Witness ==
  /\ pc = "done" /\ op = "generate_tp_prediction"
  /\ ret.bias = "bearish" /\ ~ret.error
  /\ args.risk_profile.risk_ratio > 2
  /\ ret.tp_level < args.risk_profile.entry_price
  /\ ret.sl_level > args.risk_profile.entry_price

(***************************************************************************)
(* C27: when the series is too short for every consumer (missing or        *)
(* shorter than 10 candles: trend and structure neutral with an error,     *)
(* volatility unknown) and the sentiment is neutral, the Risk Sizer fed    *)
(* with the aggregator's bias_confidence and the estimator's volatility    *)
(* recommends the aggressive tier (lot 1.00) only if the caller asked for  *)
(* it.                                                                     *)
(***************************************************************************)
C27_ShortSeriesNotAggressive ==
  (/\ pc = "done" /\ op = "run_pipeline"
   /\ args.series = <<>> \/ Len(args.series[1]) < MinTimeLen
   /\ ret.trend.trend_direction = "neutral" /\ ret.trend.error
   /\ ret.structure.structure_bias = "neutral" /\ ret.structure.error
   /\ ret.sentiment.sentiment = "neutral"
   /\ ret.time_volatility.volatility = "unknown"
   /\ args.requested_tier # "aggressive") =>
    /\ ret.risk.risk_profile # "aggressive"
    /\ ret.risk.suggested_lot_size # 100


C29_SweepAnalyzesEverySymbol ==
  (pc = "job" /\ sweep.pc \in {"returned", "raised"}) =>
    \A i \in DOMAIN args.watchlist :
      \E j \in DOMAIN sweep.analyzed : sweep.analyzed[j] = args.watchlist[i]

====
